---------------------------- MODULE Spec2Model ----------------------------
(***************************************************************************)
(* A model of the query-translation engine of src/src/parser.py            *)
(* (class QueryParser): column resolution over the column map, join-path   *)
(* search over the foreign-key graph, the shorthand parser and the SQL     *)
(* builder.                                                                *)
(*                                                                         *)
(* Python strings are modelled as sequences of one-character strings, so   *)
(* that startswith / in / replace / split are computed as the code         *)
(* computes them.  Python dicts are insertion ordered: a dict that the     *)
(* code iterates is a sequence of entries, a dict that is only looked up   *)
(* by key is a function.  A Python set is iterated in hash order, which is *)
(* fixed for one process: the variable hash_order holds it.                *)
(***************************************************************************)
EXTENDS Integers, Sequences, FiniteSets, TLC

(***************************************************************************)
(* Python str operations                                                   *)
(***************************************************************************)
Uppers == <<"A","B","C","D","E","F","G","H","I","J","K","L","M",
            "N","O","P","Q","R","S","T","U","V","W","X","Y","Z">>

Lowers == <<"a","b","c","d","e","f","g","h","i","j","k","l","m",
            "n","o","p","q","r","s","t","u","v","w","x","y","z">>

Digits == {"0","1","2","3","4","5","6","7","8","9"}

UpperSet == {Uppers[i] : i \in 1..Len(Uppers)}

LowerSet == {Lowers[i] : i \in 1..Len(Lowers)}

\* The whitespace of the modelled alphabet (str.strip, str.split, \s).
IsSpace(c) == c = " "

Min(S) == CHOOSE x \in S : \A y \in S : x <= y

Max(S) == CHOOSE x \in S : \A y \in S : x >= y

LowerChar(c) ==
    IF c \in UpperSet
    THEN Lowers[CHOOSE i \in 1..Len(Uppers) : Uppers[i] = c]
    ELSE c

UpperChar(c) ==
    IF c \in LowerSet
    THEN Uppers[CHOOSE i \in 1..Len(Lowers) : Lowers[i] = c]
    ELSE c

\* str.lower()
Lower(s) == [i \in 1..Len(s) |-> LowerChar(s[i])]

\* str.upper()
Upper(s) == [i \in 1..Len(s) |-> UpperChar(s[i])]

\* s[i:] with a 1-based first index
From(s, i) == SubSeq(s, i, Len(s))

\* s[:i] exclusive of the 1-based index i
Before(s, i) == SubSeq(s, 1, i - 1)

\* whether sub occurs in s at the 1-based index i
MatchAt(sub, s, i) ==
    /\ i >= 1
    /\ i + Len(sub) - 1 <= Len(s)
    /\ SubSeq(s, i, i + Len(sub) - 1) = sub

\* str.find(sub) + 1: the first 1-based index of sub in s, 0 when absent
FirstOf(idx) == IF idx = {} THEN 0 ELSE Min(idx)

Find(sub, s) == FirstOf({i \in 1..(Len(s) - Len(sub) + 1) : MatchAt(sub, s, i)})

\* sub in s
Contains(sub, s) == Find(sub, s) > 0

\* s.startswith(p)
StartsWith(s, p) == MatchAt(p, s, 1)

\* s.endswith(p)
EndsWith(s, p) == MatchAt(p, s, Len(s) - Len(p) + 1)

\* str.strip()
Span(s, keep) == IF keep = {} THEN <<>> ELSE SubSeq(s, Min(keep), Max(keep))

Strip(s) == Span(s, {i \in 1..Len(s) : ~IsSpace(s[i])})

\* str.strip("'\"")
StripQuotes(s) == Span(s, {i \in 1..Len(s) : s[i] \notin {"'", "\""}})

\* str.replace(old, new), old non-empty: left to right, non-overlapping
RECURSIVE Replace(_, _, _)
ReplaceAt(s, old, new, i) ==
    IF i = 0 THEN s
    ELSE Before(s, i) \o new \o Replace(From(s, i + Len(old)), old, new)

Replace(s, old, new) == ReplaceAt(s, old, new, Find(old, s))

\* str.split(sep), sep non-empty: every piece, empty ones included
RECURSIVE Split(_, _)
SplitAt(s, sep, i) ==
    IF i = 0 THEN <<s>>
    ELSE <<Before(s, i)>> \o Split(From(s, i + Len(sep)), sep)

Split(s, sep) == SplitAt(s, sep, Find(sep, s))

\* str.split(sep, 1): at most one cut, at the first occurrence
Split1At(s, sep, i) == IF i = 0 THEN <<s>> ELSE <<Before(s, i), From(s, i + Len(sep))>>

Split1(s, sep) == Split1At(s, sep, Find(sep, s))

\* str.split(): cut at runs of whitespace, no empty piece
RECURSIVE SplitWs(_)
SplitWsOf(t) ==
    LET sp == {i \in 1..Len(t) : IsSpace(t[i])}
    IN  IF t = <<>> THEN <<>>
        ELSE IF sp = {} THEN <<t>>
        ELSE <<Before(t, Min(sp))>> \o SplitWs(From(t, Min(sp)))

SplitWs(s) == SplitWsOf(Strip(s))

\* str.split(None, 1): the first word and the rest (left-stripped)
SplitWs1Of(t) ==
    LET sp == {i \in 1..Len(t) : IsSpace(t[i])}
    IN  IF t = <<>> THEN <<>>
        ELSE IF sp = {} THEN <<t>>
        ELSE LET rest == From(t, Min(sp))
                 nz == {i \in 1..Len(rest) : ~IsSpace(rest[i])}
             IN  <<Before(t, Min(sp)), From(rest, Min(nz))>>

SplitWs1(s) == SplitWs1Of(Strip(s))

\* the index after the run of whitespace of s that starts at i (i itself if none)
RECURSIVE SkipWs(_, _)
SkipWs(s, i) == IF i <= Len(s) /\ IsSpace(s[i]) THEN SkipWs(s, i + 1) ELSE i

\* The end (exclusive) of a match of the regular expression \s+word\s+ at i,
\* case-insensitive, 0 when there is none.  \s+ is greedy and word starts with
\* a non-space, so the first \s+ takes the whole run.
WordSepEnd(s, i, word) ==
    LET a == SkipWs(s, i)
        b == a + Len(word)
        c == SkipWs(s, b)
    IN  IF a > i /\ MatchAt(word, Lower(s), a) /\ c > b THEN c ELSE 0

\* re.split(r'\s+word\s+|<chars>', s, flags=re.IGNORECASE): scan left to right,
\* cut at the leftmost match; seps is the set of one-character alternatives,
\* word = <<>> for a pattern without the word alternative.
RECURSIVE ReSplitFrom(_, _, _, _, _)
ReSplitFrom(s, i, start, word, seps) ==
    IF i > Len(s) THEN <<SubSeq(s, start, Len(s))>>
    ELSE LET e == IF word = <<>> THEN 0 ELSE WordSepEnd(s, i, word)
         IN  IF e > 0
             THEN <<SubSeq(s, start, i - 1)>> \o ReSplitFrom(s, e, e, word, seps)
             ELSE IF s[i] \in seps
             THEN <<SubSeq(s, start, i - 1)>> \o ReSplitFrom(s, i + 1, i + 1, word, seps)
             ELSE ReSplitFrom(s, i + 1, start, word, seps)

ReSplit(s, word, seps) == ReSplitFrom(s, 1, 1, word, seps)

\* sep.join(parts)
RECURSIVE Join(_, _)
Join(parts, sep) ==
    IF parts = <<>> THEN <<>>
    ELSE IF Len(parts) = 1 THEN parts[1]
    ELSE parts[1] \o sep \o Join(Tail(parts), sep)

\* the elements of a sequence that satisfy a test, in order
RECURSIVE SelectIdx(_, _)
SelectIdx(n, keep) ==
    IF n = 0 THEN <<>>
    ELSE IF n \in keep THEN Append(SelectIdx(n - 1, keep), n)
    ELSE SelectIdx(n - 1, keep)

Range(s) == {s[i] : i \in 1..Len(s)}

(***************************************************************************)
(* String literals                                                         *)
(***************************************************************************)
s_id == <<"i", "d">>
s__id == <<"_", "i", "d">>
s_is_ == <<"i", "s", "_">>
s_not_ == <<"n", "o", "t", "_">>
s_job == <<"j", "o", "b">>
s_job_detail == <<"j", "o", "b", "_", "d", "e", "t", "a", "i", "l">>
s_job_schedule == <<"j", "o", "b", "_", "s", "c", "h", "e", "d", "u", "l", "e">>
s_talent == <<"t", "a", "l", "e", "n", "t">>
s_company == <<"c", "o", "m", "p", "a", "n", "y">>
s_payment == <<"p", "a", "y", "m", "e", "n", "t">>
s_file_content == <<"f", "i", "l", "e", "_", "c", "o", "n", "t", "e", "n", "t">>
s_attachment == <<"a", "t", "t", "a", "c", "h", "m", "e", "n", "t">>
s_document_history == <<"d", "o", "c", "u", "m", "e", "n", "t", "_", "h", "i", "s", "t", "o", "r", "y">>
s_file_history == <<"f", "i", "l", "e", "_", "h", "i", "s", "t", "o", "r", "y">>
s_name == <<"n", "a", "m", "e">>
s_code == <<"c", "o", "d", "e">>
s_type == <<"t", "y", "p", "e">>
s_status == <<"s", "t", "a", "t", "u", "s">>
s_state == <<"s", "t", "a", "t", "e">>
s_kondisi == <<"k", "o", "n", "d", "i", "s", "i">>
s_date == <<"d", "a", "t", "e">>
s_description == <<"d", "e", "s", "c", "r", "i", "p", "t", "i", "o", "n">>
s_title == <<"t", "i", "t", "l", "e">>
c_us == <<"_">>
c_sp == <<" ">>
c_dot == <<".">>

(***************************************************************************)
(* Python dicts                                                            *)
(***************************************************************************)
\* An insertion-ordered dict that the code iterates: a sequence of [k, v].
OdKeys(d) == {d[i].k : i \in 1..Len(d)}

OdHas(d, key) == key \in OdKeys(d)

OdGet(d, key) == d[CHOOSE i \in 1..Len(d) : d[i].k = key].v

\* d[key] = val: a new key goes last, an old key keeps its place
OdSet(d, key, val) ==
    IF OdHas(d, key)
    THEN [i \in 1..Len(d) |-> IF d[i].k = key THEN [k |-> key, v |-> val] ELSE d[i]]
    ELSE Append(d, [k |-> key, v |-> val])

\* A dict that is only looked up by key: a function.
DictHas(d, key) == key \in DOMAIN d

DictSet(d, key, val) == (key :> val) @@ d

EmptyDict == <<>>

(***************************************************************************)
(* The QueryParser instance                                                *)
(***************************************************************************)
VARIABLES
    schema_cache,       \* ordered dict: table -> [columns: <<[name, type]>>]
    relations_cache,    \* ordered dict: table -> <<[from_column, to_table, to_column]>>
    config,             \* [custom_mappings, status_mappings, status_keywords,
                        \*  default_filters, preferred_paths]
    column_map,         \* dict: key -> <<[table, column]>>
    table_columns,      \* ordered dict: table -> <<column name>>
    reverse_relations,  \* dict: to_table -> <<[from_table, from_column, to_column]>>
    fuzzy_cache,        \* dict: search term -> <<[table, column]>>
    hash_order,         \* the process's iteration order of a set of table names
    pc,                 \* what the caller is doing
    call,               \* the call in progress or just returned
    result,             \* what the last call returned
    parsed_query,       \* the ParsedQuery the caller holds
    search,             \* the state of a find_join_path in progress
    threads             \* where each thread that shares the instance is

\* The instance as the operators below read it.
Parser(s, r, c, cm, tc, rr) ==
    [schema_cache |-> s, relations_cache |-> r, config |-> c,
     column_map |-> cm, table_columns |-> tc, reverse_relations |-> rr]

ColInfo(t, c) == [table |-> t, column |-> c]

\* _add_to_map
_add_to_map(cm, key, col_info, unique) ==
    IF unique \/ ~DictHas(cm, key)
    THEN DictSet(cm, key, <<col_info>>)
    ELSE IF \E i \in 1..Len(cm[key]) :
                cm[key][i].table = col_info.table /\ cm[key][i].column = col_info.column
         THEN cm
         ELSE DictSet(cm, key, Append(cm[key], col_info))

common_cols == {s_name, s_id, s_code, s_type, s_status, s_date, s_description, s_title}

\* the body of the loop over a table's columns in _build_column_map
MapColumn(cm, table, name) ==
    LET col_name == Lower(name)
        col_info == ColInfo(table, name)
        m1 == _add_to_map(cm, col_name, col_info, FALSE)
        m2 == _add_to_map(m1, table \o c_dot \o col_name, col_info, TRUE)
        m3 == IF col_name \in common_cols
              THEN _add_to_map(m2, table \o c_us \o col_name, col_info, TRUE)
              ELSE m2
        key_no_underscore == Replace(col_name, c_us, <<>>)
    IN  IF key_no_underscore # col_name
        THEN _add_to_map(m3, key_no_underscore, col_info, FALSE)
        ELSE m3

RECURSIVE MapColumns(_, _, _, _)
MapColumns(cm, table, cols, i) ==
    IF i > Len(cols) THEN cm
    ELSE LET next == MapColumn(cm, table, cols[i].name)
         IN  \* the test makes TLC evaluate the map after each column
             IF DOMAIN next = {} THEN next
             ELSE MapColumns(next, table, cols, i + 1)

RECURSIVE MapTables(_, _, _)
MapTables(cm, schema, i) ==
    IF i > Len(schema) THEN cm
    ELSE MapTables(MapColumns(cm, schema[i].k, schema[i].v.columns, 1), schema, i + 1)

RECURSIVE MapAliases(_, _, _)
MapAliases(cm, custom, i) ==
    IF i > Len(custom) THEN cm
    ELSE MapAliases(DictSet(cm, Lower(custom[i].k), <<custom[i].v>>), custom, i + 1)

\* _build_column_map: the column map
_build_column_map(schema, custom) ==
    MapAliases(MapTables(EmptyDict, schema, 1), custom, 1)

\* _build_column_map: table_columns
BuildTableColumns(schema) ==
    [i \in 1..Len(schema) |->
        [k |-> schema[i].k,
         v |-> [j \in 1..Len(schema[i].v.columns) |-> schema[i].v.columns[j].name]]]

RECURSIVE ReverseRels(_, _, _, _)
ReverseRels(rr, from_table, rels, j) ==
    IF j > Len(rels) THEN rr
    ELSE LET rel == rels[j]
             old == IF DictHas(rr, rel.to_table) THEN rr[rel.to_table] ELSE <<>>
             new == Append(old, [from_table |-> from_table,
                                 from_column |-> rel.from_column,
                                 to_column |-> rel.to_column])
         IN  ReverseRels(DictSet(rr, rel.to_table, new), from_table, rels, j + 1)

RECURSIVE ReverseTables(_, _, _)
ReverseTables(rr, relations, i) ==
    IF i > Len(relations) THEN rr
    ELSE ReverseTables(ReverseRels(rr, relations[i].k, relations[i].v, 1), relations, i + 1)

\* _build_reverse_relations
_build_reverse_relations(relations) == ReverseTables(EmptyDict, relations, 1)

JoinInfo(jt, bc, tc) == [join_type |-> jt, base_column |-> bc, target_column |-> tc]

\* RelatedOutgoing with the two columns of a foreign key exchanged
RECURSIVE RelatedOutgoing_Swapped(_, _, _)
RelatedOutgoing_Swapped(related, rels, j) ==
    IF j > Len(rels) THEN related
    ELSE RelatedOutgoing_Swapped(
            OdSet(related, rels[j].to_table,
                  JoinInfo("outgoing", rels[j].to_column, rels[j].from_column)),
            rels, j + 1)

RECURSIVE RelatedOutgoing(_, _, _)
RelatedOutgoing(related, rels, j) ==
    IF j > Len(rels) THEN related
    ELSE RelatedOutgoing(
            OdSet(related, rels[j].to_table,
                  JoinInfo("outgoing", rels[j].from_column, rels[j].to_column)),
            rels, j + 1)

\* get_related_tables blind to the foreign keys that point at the table
RelatedIncoming_Blind(related, rels, j) == related

RECURSIVE RelatedIncoming(_, _, _)
RelatedIncoming(related, rels, j) ==
    IF j > Len(rels) THEN related
    ELSE RelatedIncoming(
            IF OdHas(related, rels[j].from_table) THEN related
            ELSE OdSet(related, rels[j].from_table,
                       JoinInfo("incoming", rels[j].to_column, rels[j].from_column)),
            rels, j + 1)

\* get_related_tables: an ordered dict table -> join_info
get_related_tables(P, base_table) ==
    LET out == IF OdHas(P.relations_cache, base_table)
               THEN RelatedOutgoing(<<>>, OdGet(P.relations_cache, base_table), 1)
               ELSE <<>>
    IN  IF DictHas(P.reverse_relations, base_table)
        THEN RelatedIncoming(out, P.reverse_relations[base_table], 1)
        ELSE out

irrelevant_tables == {s_file_content, s_attachment, s_document_history, s_file_history}

\* _score_relation: lower is better
_score_relation(from_table, to_table, join_info) ==
    LET base_col == join_info.base_column
        target_col == join_info.target_column
    IN  IF to_table \in irrelevant_tables \/ from_table \in irrelevant_tables THEN 10
        ELSE IF join_info.join_type = "incoming"
        THEN IF target_col = from_table \o s__id \/ target_col = s_id THEN 0
             ELSE IF EndsWith(target_col, s__id) /\ Contains(from_table, target_col) THEN 0
             ELSE 1
        ELSE IF base_col = to_table \o s__id THEN 0
             ELSE IF EndsWith(base_col, s__id) /\ Contains(to_table, base_col) THEN 1
             ELSE 2

\* What find_join_path returns: None, or a list of (table, join_info).
NoPath == [found |-> FALSE, path |-> <<>>]

SomePath(p) == [found |-> TRUE, path |-> p]

Hop(t, info) == [table |-> t, info |-> info]

\* _build_preferred_path: None when a hop is not a direct relation
RECURSIVE PreferredFrom(_, _, _, _, _)
PreferredFrom(P, current, tables, i, path) ==
    IF i > Len(tables) THEN SomePath(path)
    ELSE LET related == get_related_tables(P, current)
         IN  IF ~OdHas(related, tables[i]) THEN NoPath
             ELSE PreferredFrom(P, tables[i], tables, i + 1,
                                Append(path, Hop(tables[i], OdGet(related, tables[i]))))

\* _build_preferred_path without the configured intermediate tables
_build_preferred_path_Direct(P, base_table, target_table, intermediates) ==
    PreferredFrom(P, base_table, <<target_table>>, 1, <<>>)

_build_preferred_path(P, base_table, target_table, intermediates) ==
    PreferredFrom(P, base_table, Append(intermediates, target_table), 1, <<>>)

(***************************************************************************)
(* find_join_path                                                          *)
(***************************************************************************)
\* The search of find_join_path between two steps: the heap of
\* (score, counter, current_table, path), the visited set, the push counter.
SearchState(base, target, heap, visited, counter, done, res) ==
    [base |-> base, target |-> target, heap |-> heap, visited |-> visited,
     counter |-> counter, done |-> done, result |-> res]

SearchDone(st, res) == [st EXCEPT !.done = TRUE, !.result = res, !.heap = {}]


\* PushRelated with the path extended by the table the search comes from
\* instead of the table it goes to
PushRelated_FromTable(st, next_table, join_info, current_table, current_score, path) ==
    [st EXCEPT
       !.visited = @ \cup {next_table},
       !.heap = @ \cup {[score |-> current_score
                                    + _score_relation(current_table, next_table, join_info),
                         counter |-> st.counter,
                         table |-> next_table,
                         path |-> Append(path, Hop(current_table, join_info))]},
       !.counter = @ + 1]

\* visited.add(next_table), heappush of (new_score, counter, next_table,
\* path + [(next_table, join_info)]), counter += 1
PushRelated(st, next_table, join_info, current_table, current_score, path) ==
    [st EXCEPT
       !.visited = @ \cup {next_table},
       !.heap = @ \cup {[score |-> current_score
                                    + _score_relation(current_table, next_table, join_info),
                         counter |-> st.counter,
                         table |-> next_table,
                         path |-> Append(path, Hop(next_table, join_info))]},
       !.counter = @ + 1]

\* the for loop over related.items(): return at the target, push the unvisited
RECURSIVE ScanRelated(_, _, _, _, _, _)
ScanRelated(st, related, i, current_table, current_score, path) ==
    IF i > Len(related) THEN st
    ELSE LET next_table == related[i].k
             join_info == related[i].v
         IN  IF next_table = st.target
             THEN SearchDone(st, SomePath(Append(path, Hop(st.target, join_info))))
             ELSE IF next_table \notin st.visited
             THEN ScanRelated(PushRelated(st, next_table, join_info, current_table,
                                          current_score, path),
                              related, i + 1, current_table, current_score, path)
             ELSE ScanRelated(st, related, i + 1, current_table, current_score, path)

\* find_join_path up to the while loop: the same-table case, the preferred
\* path, and the scan of the base table's relations
SearchStart(P, base_table, target_table) ==
    LET st0 == SearchState(base_table, target_table, {}, {base_table}, 0, FALSE, NoPath)
        key == <<base_table, target_table>>
        pref == IF DictHas(P.config.preferred_paths, key)
                THEN _build_preferred_path(P, base_table, target_table,
                                           P.config.preferred_paths[key])
                ELSE NoPath
    IN  IF base_table = target_table THEN SearchDone(st0, SomePath(<<>>))
        ELSE IF pref.found /\ pref.path # <<>> THEN SearchDone(st0, pref)
        ELSE ScanRelated(st0, get_related_tables(P, base_table), 1, base_table, 0, <<>>)

\* heapq.heappop: the least (score, counter)
HeapMin(heap) ==
    CHOOSE e \in heap : \A f \in heap :
        \/ e.score < f.score
        \/ (e.score = f.score /\ e.counter <= f.counter)

\* one turn of the while loop: pop and scan, or return None on an empty heap
SearchPop(P, st) ==
    IF st.heap = {} THEN SearchDone(st, NoPath)
    ELSE LET e == HeapMin(st.heap)
         IN  ScanRelated([st EXCEPT !.heap = @ \ {e}],
                         get_related_tables(P, e.table), 1, e.table, e.score, e.path)

RECURSIVE RunSearch(_, _)
RunSearch(P, st) == IF st.done THEN st.result ELSE RunSearch(P, SearchPop(P, st))

\* find_join_path
find_join_path(P, base_table, target_table) ==
    RunSearch(P, SearchStart(P, base_table, target_table))

(***************************************************************************)
(* Column resolution                                                       *)
(***************************************************************************)
\* The size cap of the fuzzy cache (1000 in the source, scaled to the model).
FuzzyCacheMax == 2

\* the threads that share one instance (the source sets no number)
NumThreads == 2

\* A call's outcome together with the fuzzy cache it leaves.
Ret(val, cache) == [val |-> val, cache |-> cache]

\* _get_matches
_get_matches(P, key) == IF DictHas(P.column_map, key) THEN P.column_map[key] ELSE <<>>

\* every (table, column) in the order of the loops over table_columns
RECURSIVE AllPairs(_, _)
AllPairs(tc, i) ==
    IF i > Len(tc) THEN <<>>
    ELSE [j \in 1..Len(tc[i].v) |-> ColInfo(tc[i].k, tc[i].v[j])] \o AllPairs(tc, i + 1)

\* the score _fuzzy_search gives a column, 0 for no match
FuzzyScore(col, search_term) ==
    LET col_lower == Lower(col)
        col_clean == Replace(col_lower, c_us, <<>>)
        search_clean == Replace(Replace(search_term, c_us, <<>>), c_sp, <<>>)
    IN  IF col_lower = search_term THEN 100
        ELSE IF Contains(search_term, col_lower) THEN 80
        ELSE IF Contains(col_lower, search_term) THEN 70
        ELSE IF col_clean = search_clean THEN 90
        ELSE IF Contains(search_clean, col_clean) THEN 60
        ELSE 0

\* the elements of a sequence at the indices of another, in its order
Pick(s, order) == [k \in 1..Len(order) |-> s[order[k]]]

\* list.sort(key=score, reverse=True): stable, so equal scores keep scan order
FuzzySorted(pairs, search_term) ==
    LET n == Len(pairs)
        scores == <<100, 90, 80, 70, 60>>
        at(sc) == SelectIdx(n, {i \in 1..n : FuzzyScore(pairs[i].column, search_term) = sc})
    IN  Pick(pairs, Join([k \in 1..Len(scores) |-> at(scores[k])], <<>>))

\* the scan of _fuzzy_search, without the cache
FuzzyScan(P, search_term) == FuzzySorted(AllPairs(P.table_columns, 1), search_term)


\* _fuzzy_search with the cache entry written before the scan fills it
_fuzzy_search_CachesEarly(P, cache, search_term) ==
    IF DictHas(cache, search_term) THEN Ret(cache[search_term], cache)
    ELSE LET res == FuzzyScan(P, search_term)
         IN  IF Cardinality(DOMAIN cache) < FuzzyCacheMax
             THEN Ret(res, DictSet(cache, search_term, <<>>))
             ELSE Ret(res, cache)

\* the end of _fuzzy_search: the result, cached while the cache has room
FuzzyCached(cache, search_term, res) ==
    IF Cardinality(DOMAIN cache) < FuzzyCacheMax
    THEN Ret(res, DictSet(cache, search_term, res))
    ELSE Ret(res, cache)

\* _fuzzy_search
_fuzzy_search(P, cache, search_term) ==
    IF DictHas(cache, search_term) THEN Ret(cache[search_term], cache)
    ELSE FuzzyCached(cache, search_term, FuzzyScan(P, search_term))

core_tables == {s_job, s_job_detail, s_job_schedule, s_talent, s_company, s_payment}

\* the score _select_best_match gives a candidate
BestMatchScore(P, m, search_term, prefer_table) ==
    LET table == Lower(m.table)
        first == Split(Lower(search_term), c_us)[1]
    IN  (IF prefer_table # <<>> /\ table = Lower(prefer_table) THEN 100 ELSE 0)
      + (IF table = first THEN 50 ELSE IF StartsWith(table, first) THEN 30 ELSE 0)
      + (IF table \in core_tables THEN 20 ELSE 0)
      + (IF OdHas(P.relations_cache, table) THEN 10 ELSE 0)
      + (IF Lower(m.column) = search_term THEN 5 ELSE 0)

\* the last of the highest score
FirstBest_Last(matches, sc) ==
    matches[CHOOSE i \in 1..Len(matches) :
                /\ \A j \in 1..Len(matches) : sc[j] <= sc[i]
                /\ \A j \in (i + 1)..Len(matches) : sc[j] < sc[i]]

\* _select_best_match, for a non-empty list: the first of the highest score
FirstBest(matches, sc) ==
    matches[CHOOSE i \in 1..Len(matches) :
                /\ \A j \in 1..Len(matches) : sc[j] <= sc[i]
                /\ \A j \in 1..(i - 1) : sc[j] < sc[i]]

_select_best_match(P, matches, search_term, prefer_table) ==
    FirstBest(matches, [i \in 1..Len(matches) |->
                           BestMatchScore(P, matches[i], search_term, prefer_table)])

\* Optional values: None is the empty sequence.
None == <<>>

Some(x) == <<x>>

\* the columns of the tables the dotted form of find_column scans, in scan order
RECURSIVE DottedScan(_, _, _, _)
DottedScan(tc, i, table_hint, col_name) ==
    IF i > Len(tc) THEN <<>>
    ELSE LET table == tc[i].k
             cols == tc[i].v
             hit == {j \in 1..Len(cols) :
                        \/ Lower(cols[j]) = col_name
                        \/ Replace(Lower(cols[j]), c_us, <<>>) = Replace(col_name, c_us, <<>>)}
         IN  IF (Lower(table) = table_hint \/ StartsWith(Lower(table), table_hint))
                /\ hit # {}
             THEN <<ColInfo(table, cols[Min(hit)])>>
             ELSE DottedScan(tc, i + 1, table_hint, col_name)

\* the matches of the fuzzy search when the column map gave none
OrFuzzy(P, cache, col_part, matches) ==
    IF matches = <<>> THEN _fuzzy_search(P, cache, col_part) ELSE Ret(matches, cache)

\* the matches under a second key when the first gave none and the keys differ
OrMatches(P, col_part, key, matches) ==
    IF matches = <<>> /\ key # col_part THEN _get_matches(P, key) ELSE matches

\* the matches under a second key when the first gave none
OrMatchesOf(P, key, matches) ==
    IF matches = <<>> THEN _get_matches(P, key) ELSE matches

\* the end of find_column: no match, the only match, or the best match
FindColumnAmong(P, col_part, prefer_table, fz) ==
    IF fz.val = <<>> THEN Ret(None, fz.cache)
    ELSE IF Len(fz.val) = 1 THEN Ret(Some(fz.val[1]), fz.cache)
    ELSE Ret(Some(_select_best_match(P, fz.val, col_part, prefer_table)), fz.cache)

\* find_column, the dotted form first
FindColumnDotted(P, cache, col_part, prefer_table, dotted) ==
    IF dotted # <<>> THEN Ret(Some(dotted[1]), cache)
    ELSE FindColumnAmong(P, col_part, prefer_table,
            OrFuzzy(P, cache, col_part,
                OrMatchesOf(P, Replace(col_part, c_us, <<>>),
                    OrMatches(P, col_part, Replace(col_part, c_us, c_sp),
                              _get_matches(P, col_part)))))

\* find_column, for the stripped and lower-cased col_part
FindColumnOf(P, cache, col_part, prefer_table) ==
    FindColumnDotted(P, cache, col_part, prefer_table,
        IF Contains(c_dot, col_part)
        THEN DottedScan(P.table_columns, 1, Split1(col_part, c_dot)[1],
                        Split1(col_part, c_dot)[2])
        ELSE <<>>)

\* find_column
find_column(P, cache, col_part_in, prefer_table) ==
    FindColumnOf(P, cache, Lower(Strip(col_part_in)), prefer_table)

\* find_all_columns
FindAllColumnsOf(P, cache, col_part) ==
    OrFuzzy(P, cache, col_part,
        OrMatchesOf(P, Replace(col_part, c_us, c_sp), _get_matches(P, col_part)))

find_all_columns(P, cache, col_part_in) ==
    FindAllColumnsOf(P, cache, Lower(Strip(col_part_in)))

\* the first index of matches that satisfies a test, 0 when none does
FirstIdx(n, ok(_)) ==
    LET s == {i \in 1..n : ok(i)} IN IF s = {} THEN 0 ELSE Min(s)

\* find_column_for_base
\* the end of find_column_for_base: the first match in the base table, else
\* the first in a directly related table, else the first in a joinable table
\* (p1, p2, p3: their indices, 0 when there is none), else the best match
FindForBaseBy(P, col_part, base_table, fz, p1, p2, p3) ==
    IF base_table # <<>> /\ p1 > 0 THEN Ret(Some(fz.val[p1]), fz.cache)
    ELSE IF base_table # <<>> /\ p2 > 0 THEN Ret(Some(fz.val[p2]), fz.cache)
    ELSE IF base_table # <<>> /\ p3 > 0 THEN Ret(Some(fz.val[p3]), fz.cache)
    ELSE Ret(Some(_select_best_match(P, fz.val, col_part, base_table)), fz.cache)

\* find_column_for_base, among the matches found
FindForBaseAmong(P, col_part, base_table, fz, related) ==
    LET matches == fz.val
        n == Len(matches)
        own(i) == matches[i].table = base_table
        direct(i) == OdHas(related, matches[i].table)
        joinable(i) == find_join_path(P, base_table, matches[i].table).found
    IN  IF matches = <<>> THEN Ret(None, fz.cache)
        ELSE IF n = 1 THEN Ret(Some(matches[1]), fz.cache)
        ELSE FindForBaseBy(P, col_part, base_table, fz,
                           FirstIdx(n, own), FirstIdx(n, direct), FirstIdx(n, joinable))

\* find_column_for_base, for the stripped and lower-cased col_part
FindForBaseOf(P, cache, col_part, base_table) ==
    IF Contains(c_dot, col_part) THEN find_column(P, cache, col_part, <<>>)
    ELSE FindForBaseAmong(P, col_part, base_table,
            OrFuzzy(P, cache, col_part,
                OrMatches(P, col_part, Replace(col_part, c_sp, c_us),
                    OrMatches(P, col_part, Replace(col_part, c_us, c_sp),
                              _get_matches(P, col_part)))),
            get_related_tables(P, base_table))

\* find_column_for_base
find_column_for_base(P, cache, col_part_in, base_table) ==
    FindForBaseOf(P, cache, Lower(Strip(col_part_in)), base_table)

(***************************************************************************)
(* Literals of the shorthand and of the emitted SQL                         *)
(***************************************************************************)
k_primary_ == <<"p", "r", "i", "m", "a", "r", "y", " ">>
k__show_ == <<" ", "s", "h", "o", "w", " ">>
k_show_ == <<"s", "h", "o", "w", " ">>
k__order_by_ == <<" ", "o", "r", "d", "e", "r", " ", "b", "y", " ">>
k__where_ == <<" ", "w", "h", "e", "r", "e", " ">>
k__when_ == <<" ", "w", "h", "e", "n", " ">>
k_ASC == <<"A", "S", "C">>
k_DESC == <<"D", "E", "S", "C">>
k_and == <<"a", "n", "d">>
k_to == <<"t", "o">>
k__to_ == <<" ", "t", "o", " ">>
k_dotdot == <<".", ".">>
k__is_not_null == <<" ", "i", "s", " ", "n", "o", "t", " ", "n", "u", "l", "l">>
k__is_null == <<" ", "i", "s", " ", "n", "u", "l", "l">>
o_ge == <<">", "=">>
o_le == <<"<", "=">>
o_ne == <<"!", "=">>
o_ltgt == <<"<", ">">>
o_gt == <<">">>
o_lt == <<"<">>
o_eq == <<"=">>
a_count == <<"c", "o", "u", "n", "t">>
a_sum == <<"s", "u", "m">>
a_avg == <<"a", "v", "g">>
a_min == <<"m", "i", "n">>
a_max == <<"m", "a", "x">>
t_boolean == <<"b", "o", "o", "l", "e", "a", "n">>
t_bool == <<"b", "o", "o", "l">>
t_timestamp == <<"t", "i", "m", "e", "s", "t", "a", "m", "p">>
t_timestamptz == <<"t", "i", "m", "e", "s", "t", "a", "m", "p", "t", "z">>
t_date == <<"d", "a", "t", "e">>
t_timestamp_with_time_zone == <<"t", "i", "m", "e", "s", "t", "a", "m", "p", " ", "w", "i", "t", "h", " ", "t", "i", "m", "e", " ", "z", "o", "n", "e">>
t_timestamp_without_time_zone == <<"t", "i", "m", "e", "s", "t", "a", "m", "p", " ", "w", "i", "t", "h", "o", "u", "t", " ", "t", "i", "m", "e", " ", "z", "o", "n", "e">>
t_text == <<"t", "e", "x", "t">>
t_varchar == <<"v", "a", "r", "c", "h", "a", "r">>
t_character_varying == <<"c", "h", "a", "r", "a", "c", "t", "e", "r", " ", "v", "a", "r", "y", "i", "n", "g">>
t_char == <<"c", "h", "a", "r">>
t_character == <<"c", "h", "a", "r", "a", "c", "t", "e", "r">>
t_name == <<"n", "a", "m", "e">>
t_integer == <<"i", "n", "t", "e", "g", "e", "r">>
v_completed == <<"c", "o", "m", "p", "l", "e", "t", "e", "d">>
v_done == <<"d", "o", "n", "e">>
v_finished == <<"f", "i", "n", "i", "s", "h", "e", "d">>
v_yes == <<"y", "e", "s">>
v_true == <<"t", "r", "u", "e">>
v_ada == <<"a", "d", "a">>
v_none == <<"n", "o", "n", "e">>
v_null == <<"n", "u", "l", "l">>
v_empty == <<"e", "m", "p", "t", "y">>
v_kosong == <<"k", "o", "s", "o", "n", "g">>
v_belum == <<"b", "e", "l", "u", "m">>
v_no == <<"n", "o">>
v_false == <<"f", "a", "l", "s", "e">>
v_tidak == <<"t", "i", "d", "a", "k">>
s__on == <<"_", "o", "n">>
s__date == <<"_", "d", "a", "t", "e">>
s__at == <<"_", "a", "t">>
s_ed == <<"e", "d">>
q_dq == <<"\"">>
q_dq_dot_dq == <<"\"", ".", "\"">>
q_eq_ph == <<" ", "=", " ", "%", "s">>
q_ph == <<"%", "s">>
q_is_not_null == <<" ", "I", "S", " ", "N", "O", "T", " ", "N", "U", "L", "L">>
q_is_null == <<" ", "I", "S", " ", "N", "U", "L", "L">>
q_ilike_ph == <<" ", "I", "L", "I", "K", "E", " ", "%", "s">>
q_or == <<" ", "O", "R", " ">>
q_in_open == <<" ", "I", "N", " ", "(">>
q_comma_sp == <<",", " ">>
q_between == <<":", ":", "d", "a", "t", "e", " ", "B", "E", "T", "W", "E", "E", "N", " ", "%", "s", ":", ":", "d", "a", "t", "e", " ", "A", "N", "D", " ", "%", "s", ":", ":", "d", "a", "t", "e">>
q_pct == <<"%">>
c_colon == <<":">>
c_comma == <<",">>
c_slash == <<"/">>
c_lparen == <<"(">>
c_rparen == <<")">>
c_dash == <<"-">>

(***************************************************************************)
(* parse_date                                                              *)
(***************************************************************************)
DigitVal(c) == CHOOSE n \in 0..9 : ToString(n) = c

IsDigits(s) == \A i \in 1..Len(s) : s[i] \in Digits

RECURSIVE NumVal(_)
NumVal(s) == IF s = <<>> THEN 0 ELSE 10 * NumVal(Before(s, Len(s))) + DigitVal(s[Len(s)])

\* the directive %Y of strptime: four digits
IsYearField(s) == Len(s) = 4 /\ IsDigits(s)

\* the directive %m: 1[0-2]|0[1-9]|[1-9]
IsMonthField(s) == Len(s) \in {1, 2} /\ IsDigits(s) /\ NumVal(s) \in 1..12

\* the directive %d: 3[01]|[12]\d|0[1-9]|[1-9]| [1-9]
IsDayField(s) ==
    \/ Len(s) \in {1, 2} /\ IsDigits(s) /\ NumVal(s) \in 1..31
    \/ Len(s) = 2 /\ s[1] = " " /\ s[2] \in Digits /\ DigitVal(s[2]) \in 1..9

DayVal(s) == IF s[1] = " " THEN DigitVal(s[2]) ELSE NumVal(s)

IsLeap(y) == (y % 4 = 0 /\ y % 100 # 0) \/ y % 400 = 0

DaysIn(y, m) ==
    IF m = 2 THEN (IF IsLeap(y) THEN 29 ELSE 28)
    ELSE IF m \in {4, 6, 9, 11} THEN 30 ELSE 31

\* datetime(y, m, d) is a date (MINYEAR is 1)
ValidDate(y, m, d) == y >= 1 /\ m \in 1..12 /\ d >= 1 /\ d <= DaysIn(y, m)

Pad(n, w) ==
    LET RECURSIVE digits(_, _)
        digits(k, left) ==
            IF left = 0 THEN <<>> ELSE Append(digits(k \div 10, left - 1), ToString(k % 10))
    IN  digits(n, w)

\* str(n) of a natural number
RECURSIVE IntStr(_)
IntStr(n) == IF n < 10 THEN <<ToString(n)>> ELSE Append(IntStr(n \div 10), ToString(n % 10))

\* strftime('%Y-%m-%d'): the C library's %Y does not pad the year
IsoDate(y, m, d) == IntStr(y) \o c_dash \o Pad(m, 2) \o c_dash \o Pad(d, 2)

\* strptime on the three fields f cut by a separator; order is "ymd" or "dmy"
ParseFields(f, order) ==
    LET yf == IF order = "ymd" THEN f[1] ELSE f[3]
        df == IF order = "ymd" THEN f[3] ELSE f[1]
    IN  IF Len(f) = 3 /\ f[1] # <<>> /\ f[3] # <<>>
           /\ IsYearField(yf) /\ IsMonthField(f[2]) /\ IsDayField(df)
           /\ ValidDate(NumVal(yf), NumVal(f[2]), DayVal(df))
        THEN <<IsoDate(NumVal(yf), NumVal(f[2]), DayVal(df))>>
        ELSE <<>>

\* strptime with three fields cut by a separator
ParseSeparated(s, sep, order) == ParseFields(Split(s, sep), order)

\* strptime with '%Y%m%d', the month taking k characters and the day all
\* that is left, for the greatest k of cuts
CompactDate(s, cuts) ==
    LET y == SubSeq(s, 1, 4)
        k == Max(cuts)
    IN  IF Len(s) >= 6 /\ IsYearField(y) /\ cuts # {}
           /\ ValidDate(NumVal(y), NumVal(SubSeq(s, 5, 4 + k)), DayVal(From(s, 5 + k)))
        THEN <<IsoDate(NumVal(y), NumVal(SubSeq(s, 5, 4 + k)), DayVal(From(s, 5 + k)))>>
        ELSE <<>>

\* strptime with '%Y%m%d': the month takes two characters when it can, the
\* day takes all that is left
ParseCompact(s) ==
    CompactDate(s, {k \in {2, 1} :
                      /\ Len(s) >= 4 + k + 1
                      /\ IsMonthField(SubSeq(s, 5, 4 + k))
                      /\ (k = 1 => s[5] # "0")
                      /\ IsDayField(From(s, 5 + k))})

\* the first format that parsed, else the text as it is
FirstParsed(s, tries) == IF tries = <<>> THEN s ELSE tries[1]

\* parse_date of a stripped text, the DATE_FORMATS in their order
ParseDateOf(s) ==
    FirstParsed(s,
        ParseSeparated(s, c_dash, "ymd") \o ParseSeparated(s, c_dash, "dmy")
        \o ParseSeparated(s, c_slash, "dmy") \o ParseSeparated(s, c_slash, "ymd")
        \o ParseSeparated(s, c_dot, "dmy") \o ParseCompact(s))

\* parse_date: the first of DATE_FORMATS that parses, else the text as it is
parse_date(date_str) == ParseDateOf(Strip(date_str))

(***************************************************************************)
(* Where conditions                                                        *)
(***************************************************************************)
\* Values bound as parameters: Python str and bool.
PyStr(s) == [py |-> "str", s |-> s, b |-> FALSE]

PyBool(b) == [py |-> "bool", s |-> <<>>, b |-> b]

\* "table"."column"
ColRef(table, column) == q_dq \o table \o q_dq_dot_dq \o column \o q_dq

\* schema_cache.get(table, {}).get('columns', [])
ColumnsOf(P, table) ==
    IF OdHas(P.schema_cache, table) THEN OdGet(P.schema_cache, table).columns ELSE <<>>

\* _get_column_type
_get_column_type(P, table, column) ==
    LET cols == ColumnsOf(P, table)
        hit == {i \in 1..Len(cols) : Lower(cols[i].name) = Lower(column)}
    IN  IF hit = {} THEN <<>> ELSE Lower(cols[Min(hit)].type)

\* _column_exists
_column_exists(P, table, column) ==
    \E i \in 1..Len(ColumnsOf(P, table)) :
        Lower(ColumnsOf(P, table)[i].name) = Lower(column)

\* the names of the boolean columns of a list of columns
BoolColumnsOf(cols) ==
    Pick([i \in 1..Len(cols) |-> cols[i].name],
         SelectIdx(Len(cols), {i \in 1..Len(cols) : cols[i].type \in {t_boolean, t_bool}}))

\* those of them that start with is_
IsColumnsOf(bool_cols) ==
    Pick(bool_cols,
         SelectIdx(Len(bool_cols),
                   {i \in 1..Len(bool_cols) : StartsWith(Lower(bool_cols[i]), s_is_)}))

\* the first is_ column that equals is_<suffix> in lower case, if any
FirstIsNamed(is_cols, suffix) ==
    LET s == {i \in 1..Len(is_cols) : Lower(is_cols[i]) = s_is_ \o suffix}
    IN  IF s = {} THEN <<>> ELSE <<is_cols[Min(s)]>>

\* the first is_ column whose suffix contains the status value or starts with it
FirstIsPartial(is_cols, status_val) ==
    LET suffix(c) == Replace(Lower(c), s_is_, <<>>)
        s == {i \in 1..Len(is_cols) :
                \/ Contains(status_val, suffix(is_cols[i]))
                \/ StartsWith(suffix(is_cols[i]), status_val)}
    IN  IF s = {} THEN <<>> ELSE <<is_cols[Min(s)]>>

\* find_boolean_column_for_status, for one status value, by what was found:
\* the status mapping, then not_<status>, then is_<status>, then a partial match
StatusColumnBy(P, table, status_val, bool_cols, named_not, named, partial) ==
    LET sm == P.config.status_mappings
        hit(col, val) == <<[col_info |-> ColInfo(table, col), value |-> val]>>
        base_status == From(status_val, 5)
        isNot == StartsWith(status_val, s_not_)
    IN  IF DictHas(sm, status_val) /\ sm[status_val].column \in Range(bool_cols)
        THEN hit(sm[status_val].column, sm[status_val].value)
        ELSE IF isNot /\ DictHas(sm, base_status) /\ sm[base_status].column \in Range(bool_cols)
        THEN hit(sm[base_status].column, FALSE)
        ELSE IF isNot /\ named_not # <<>> THEN hit(named_not[1], FALSE)
        ELSE IF named # <<>> THEN hit(named[1], TRUE)
        ELSE IF partial # <<>> THEN hit(partial[1], TRUE)
        ELSE <<>>

StatusColumnAmong(P, table, status_val, bool_cols, is_cols) ==
    StatusColumnBy(P, table, status_val, bool_cols,
                   FirstIsNamed(is_cols, From(status_val, 5)),
                   FirstIsNamed(is_cols, status_val),
                   FirstIsPartial(is_cols, status_val))

StatusColumnOf(P, table, status_val, bool_cols) ==
    StatusColumnAmong(P, table, status_val, bool_cols, IsColumnsOf(bool_cols))

\* find_boolean_column_for_status, for one status value: the (column, value)
\* found, or nothing
StatusColumn(P, table, status_val_in) ==
    StatusColumnOf(P, table, Lower(Strip(status_val_in)), BoolColumnsOf(ColumnsOf(P, table)))

\* find_boolean_column_for_status: the list of results (empty for None)
RECURSIVE find_boolean_column_for_status(_, _, _)
find_boolean_column_for_status(P, table, status_values) ==
    IF status_values = <<>> THEN <<>>
    ELSE StatusColumn(P, table, status_values[1])
         \o find_boolean_column_for_status(P, table, Tail(status_values))

\* What parse has gathered while it processes conditions; err is "" until a
\* ValueError is raised, errtok names what the error message names.
CondAcc(cache, where_parts, params, where_tables, err, errtok) ==
    [cache |-> cache, where_parts |-> where_parts, params |-> params,
     where_tables |-> where_tables, err |-> err, errtok |-> errtok]

\* [v.strip().lower() for v in values if v.strip()]
StrippedLower(raw) ==
    Pick([i \in 1..Len(raw) |-> Lower(Strip(raw[i]))],
         SelectIdx(Len(raw), {i \in 1..Len(raw) : Strip(raw[i]) # <<>>}))

\* the values of a condition: split at / and |, stripped, lower-cased
ConditionValues(val_part) ==
    IF Contains(c_slash, val_part) \/ Contains(<<"|">>, val_part)
    THEN StrippedLower(ReSplit(val_part, <<>>, {"/", "|"}))
    ELSE <<Lower(val_part)>>

date_types == {t_timestamp, t_timestamptz, t_date, t_timestamp_with_time_zone,
               t_timestamp_without_time_zone}

text_types == {t_text, t_varchar, t_character_varying, t_char, t_character, t_name}

status_values_of_date == {v_completed, v_done, v_finished, v_yes, v_true, v_ada}

empty_values == {v_none, v_null, v_empty, v_kosong, v_belum, v_no, v_false, v_tidak}

\* _add_condition, the status branch
StatusConditionOf(acc, values, bool_results) ==
    LET n == Len(bool_results)
        or_conditions == [i \in 1..n |->
            ColRef(bool_results[i].col_info.table, bool_results[i].col_info.column) \o q_eq_ph]
        new_params == [i \in 1..n |-> PyBool(bool_results[i].value)]
        new_tables == {bool_results[i].col_info.table : i \in 1..n}
        part == IF n = 1 THEN or_conditions[1]
                ELSE c_lparen \o Join(or_conditions, q_or) \o c_rparen
    IN  IF n > 0
        THEN [acc EXCEPT !.where_parts = Append(@, part),
                         !.params = @ \o new_params,
                         !.where_tables = @ \cup new_tables]
        ELSE [acc EXCEPT !.err = "unknown_status", !.errtok = Join(values, c_slash)]

AddStatusCondition(P, acc, values, base_table) ==
    StatusConditionOf(acc, values, find_boolean_column_for_status(P, base_table, values))


\* AddColumnCondition with the value written into the SQL text
AddColumnCondition_Inline(P, acc, col_info, values, op) ==
    [acc EXCEPT
       !.where_tables = @ \cup {col_info.table},
       !.where_parts = Append(@, ColRef(col_info.table, col_info.column)
                                    \o c_sp \o op \o c_sp \o values[1])]

\* _add_condition, the branch of a resolved column
AddColumnCondition(P, acc, col_info, values, op) ==
    LET table == col_info.table
        col_ref == ColRef(table, col_info.column)
        col_name == Lower(col_info.column)
        col_type == _get_column_type(P, table, col_info.column)
        a1 == [acc EXCEPT !.where_tables = @ \cup {table}]
        base_col_name == Replace(Replace(Replace(col_name, s__on, <<>>), s__date, <<>>), s__at, <<>>)
        cand == <<s_is_ \o base_col_name, s_is_ \o base_col_name \o s_ed>>
        ilikes == [i \in 1..Len(values) |-> col_ref \o q_ilike_ph]
        wrapped == [i \in 1..Len(values) |-> PyStr(q_pct \o values[i] \o q_pct)]
        holders == [i \in 1..Len(values) |-> q_ph]
    IN  IF col_type \in date_types /\ Len(values) = 1 /\ values[1] \in status_values_of_date
        THEN IF _column_exists(P, table, cand[1])
             THEN [a1 EXCEPT !.where_parts = Append(@, ColRef(table, cand[1]) \o q_eq_ph),
                             !.params = Append(@, PyBool(TRUE))]
             ELSE IF _column_exists(P, table, cand[2])
             THEN [a1 EXCEPT !.where_parts = Append(@, ColRef(table, cand[2]) \o q_eq_ph),
                             !.params = Append(@, PyBool(TRUE))]
             ELSE [a1 EXCEPT !.where_parts = Append(@, col_ref \o q_is_not_null)]
        ELSE IF col_type \in date_types /\ Len(values) = 1 /\ values[1] \in empty_values
        THEN [a1 EXCEPT !.where_parts = Append(@, col_ref \o q_is_null)]
        ELSE IF col_type \in text_types
        THEN IF Len(values) > 1
             THEN [a1 EXCEPT !.where_parts =
                                Append(@, c_lparen \o Join(ilikes, q_or) \o c_rparen),
                             !.params = @ \o wrapped]
             ELSE [a1 EXCEPT !.where_parts = Append(@, col_ref \o q_ilike_ph),
                             !.params = Append(@, PyStr(q_pct \o values[1] \o q_pct))]
        ELSE IF Len(values) > 1
        THEN [a1 EXCEPT !.where_parts =
                           Append(@, col_ref \o q_in_open \o Join(holders, q_comma_sp) \o c_rparen),
                        !.params = @ \o [i \in 1..Len(values) |-> PyStr(values[i])]]
        ELSE [a1 EXCEPT !.where_parts = Append(@, col_ref \o c_sp \o op \o c_sp \o q_ph),
                        !.params = Append(@, PyStr(values[1]))]

\* _add_condition, once the values are cut and the column is looked up
AddConditionOf(P, acc, col_part, values, op, base_table, found) ==
    IF (\E i \in 1..Len(P.config.status_keywords) :
            Contains(P.config.status_keywords[i], Lower(col_part)))
       /\ base_table # <<>>
    THEN AddStatusCondition(P, acc, values, base_table)
    ELSE IF found.val = None THEN [acc EXCEPT !.cache = found.cache]
    ELSE AddColumnCondition(P, [acc EXCEPT !.cache = found.cache], found.val[1], values, op)

\* _add_condition
_add_condition(P, acc, col_part, val_part, op, base_table) ==
    AddConditionOf(P, acc, col_part, ConditionValues(val_part), op, base_table,
                   find_column(P, acc.cache, col_part, base_table))

\* _process_condition, the date-range branch once the range is cut in
\* date_parts and the column is looked up: the accumulator after it and
\* whether it returned
RangeConditionOf(acc, cond, date_parts, found) ==
    IF ~(Contains(k_dotdot, cond) \/ Contains(k__to_, Lower(cond)))
       \/ ~Contains(o_eq, cond)
       \/ Len(date_parts) # 2
    THEN [acc |-> acc, returned |-> FALSE]
    ELSE IF found.val = None
    THEN [acc |-> [acc EXCEPT !.cache = found.cache], returned |-> FALSE]
    ELSE [acc |-> [acc EXCEPT
                    !.cache = found.cache,
                    !.where_parts = Append(@, ColRef(found.val[1].table, found.val[1].column)
                                                 \o q_between),
                    !.params = @ \o <<PyStr(parse_date(StripQuotes(Strip(date_parts[1])))),
                                      PyStr(parse_date(StripQuotes(Strip(date_parts[2]))))>>,
                    !.where_tables = @ \cup {found.val[1].table}],
          returned |-> TRUE]

\* range_part cut at '..', or else by re.split(r'\s+to\s+', ...)
DateParts(range_part) ==
    IF Contains(k_dotdot, range_part)
    THEN Split1(range_part, k_dotdot)
    ELSE ReSplit(range_part, k_to, {})

\* _process_condition, the date-range branch: parts is cond cut at the first =
RangeConditionAt(P, acc, cond, base_table, parts) ==
    RangeConditionOf(acc, cond, DateParts(Strip(parts[2])),
                     find_column(P, acc.cache, Strip(parts[1]), base_table))

\* _process_condition, the date-range branch
RangeCondition(P, acc, cond, base_table) ==
    RangeConditionAt(P, acc, cond, base_table, Split1(cond, o_eq))

\* _process_condition, an IS [NOT] NULL branch once the column is looked up
NullConditionOf(acc, sql, found) ==
    IF found.val = None THEN [acc EXCEPT !.cache = found.cache]
    ELSE [acc EXCEPT
            !.cache = found.cache,
            !.where_parts = Append(@, ColRef(found.val[1].table, found.val[1].column) \o sql),
            !.where_tables = @ \cup {found.val[1].table}]

\* _process_condition, the IS [NOT] NULL branches
NullCondition(P, acc, cond, base_table, kw, sql) ==
    NullConditionOf(acc, sql,
        find_column(P, acc.cache, Strip(Before(cond, Find(kw, Lower(cond)))), base_table))

\* the operators of a condition, in the order the code tries them
condition_ops == <<o_ge, o_le, o_ne, o_ltgt, o_gt, o_lt, o_eq>>

\* the first of condition_ops that occurs in cond, the empty text when none does
FirstOp(cond, present) == IF present = {} THEN <<>> ELSE condition_ops[Min(present)]

OperatorOf(cond) ==
    FirstOp(cond, {i \in 1..Len(condition_ops) : Contains(condition_ops[i], cond)})

\* _process_condition, the comparison with operator op: cond cut at op
OpCondition(P, a, op, by_op, base_table) ==
    _add_condition(P, a, Strip(by_op[1]), StripQuotes(Strip(by_op[2])), op, base_table)

\* _process_condition, the fallback `column value`
WordsCondition(P, a, words, base_table) ==
    IF Len(words) = 2
    THEN _add_condition(P, a, words[1], Strip(words[2]), o_eq, base_table)
    ELSE a

\* _process_condition, after the date-range branch
ConditionAfterRange(P, rng, cond, base_table, op) ==
    IF rng.returned THEN rng.acc
    ELSE IF Contains(k__is_not_null, Lower(cond))
    THEN NullCondition(P, rng.acc, cond, base_table, k__is_not_null, q_is_not_null)
    ELSE IF Contains(k__is_null, Lower(cond))
    THEN NullCondition(P, rng.acc, cond, base_table, k__is_null, q_is_null)
    ELSE IF op # <<>>
    THEN OpCondition(P, rng.acc, op, Split1(cond, op), base_table)
    ELSE WordsCondition(P, rng.acc, SplitWs1(cond), base_table)

\* _process_condition
_process_condition(P, acc, cond, base_table) ==
    ConditionAfterRange(P, RangeCondition(P, acc, cond, base_table), cond, base_table,
                        OperatorOf(cond))

(***************************************************************************)
(* parse                                                                   *)
(***************************************************************************)
\* the order by clause read without its direction
OrderOf_Undirected(order_parts) ==
    [order_by |-> IF order_parts = <<>> THEN <<>> ELSE order_parts[1],
     order_dir |-> k_ASC]

\* _parse_order_where, the order by clause: its column and its direction
OrderOf(order_parts) ==
    [order_by |-> IF order_parts = <<>> THEN <<>> ELSE order_parts[1],
     order_dir |-> IF Len(order_parts) > 1
                      /\ Upper(order_parts[Len(order_parts)]) \in {k_ASC, k_DESC}
                   THEN Upper(order_parts[Len(order_parts)]) ELSE k_ASC]

\* _parse_order_where, the cut at the keyword kw (where, else when, else none)
\* found at wi
CutWhere(query_part, kw, wi, order) ==
    [columns_part |-> IF kw = <<>> THEN query_part ELSE Strip(Before(query_part, wi)),
     conditions_part |-> IF kw = <<>> THEN <<>> ELSE Strip(From(query_part, wi + Len(kw))),
     order_by |-> order.order_by,
     order_dir |-> order.order_dir]

CutWhereAt(query_part, kw, order) ==
    CutWhere(query_part, kw, Find(kw, Lower(query_part)), order)

WhereOf(query_part, order) ==
    CutWhereAt(query_part,
               IF Contains(k__where_, Lower(query_part)) THEN k__where_
               ELSE IF Contains(k__when_, Lower(query_part)) THEN k__when_
               ELSE <<>>,
               order)

\* _parse_order_where, with ' order by ' found at oi (0 when absent)
OrderWhereAt(query_part_in, oi) ==
    WhereOf(IF oi = 0 THEN query_part_in ELSE Strip(Before(query_part_in, oi)),
            OrderOf(IF oi = 0 THEN <<>>
                    ELSE SplitWs(Strip(From(query_part_in, oi + 10)))))

\* _parse_order_where
_parse_order_where(query_part_in) ==
    OrderWhereAt(query_part_in, Find(k__order_by_, Lower(query_part_in)))

\* the head of parse, before _parse_order_where: the format, the primary
\* column and the text that follows
HeadOf(query_text, part1) ==
    LET query_lower == Lower(query_text)
        show_idx == Find(k__show_, Lower(part1))
        colon_idx == Find(c_colon, query_text)
        mk(f, primary, rest) == [format |-> f, primary_column |-> primary, rest |-> rest]
    IN  IF StartsWith(query_lower, k_primary_)
        THEN IF show_idx = 0 THEN mk(0, None, <<>>)
             ELSE mk(1, Some(Strip(Before(part1, show_idx))), Strip(From(part1, show_idx + 6)))
        ELSE IF Contains(c_colon, query_text) /\ ~StartsWith(query_lower, k_show_)
        THEN mk(2, Some(Strip(Before(query_text, colon_idx))),
                Strip(From(query_text, colon_idx + 1)))
        ELSE IF StartsWith(query_lower, k_show_)
        THEN mk(3, None, Strip(From(query_text, 6)))
        ELSE mk(0, None, <<>>)

HeadCut(head) == [head EXCEPT !.rest = _parse_order_where(@)]

HeadOfText(query_text) == HeadCut(HeadOf(query_text, Strip(From(query_text, 9))))

\* The head of parse: which of the three formats the text has, its primary
\* column (None when the format names none) and the rest, cut by
\* _parse_order_where.  format is 0 for a text of no supported format.
ParseFormat(query_text_in) == HeadOfText(Strip(query_text_in))

priority_tables == <<s_job, s_job_detail, s_job_schedule>>


\* _detect_optimal_base_table
_detect_optimal_base_table(select_columns, current_base) ==
    LET tables_in_query == {select_columns[i].table : i \in 1..Len(select_columns)}
        hit == {i \in 1..Len(priority_tables) : priority_tables[i] \in tables_in_query}
    IN  IF hit = {} THEN current_base ELSE priority_tables[Min(hit)]

aggregate_funcs == {a_count, a_sum, a_avg, a_min, a_max}

\* A select column: a column info, with the aggregate tag when there is one
\* (the empty string when there is none).
SelCol(col_info, agg) ==
    [table |-> col_info.table, column |-> col_info.column, aggregate |-> agg]

\* What parse has gathered while it resolves the select list.
SelAcc(cache, select_columns, base_table, err, errtok) ==
    [cache |-> cache, select_columns |-> select_columns, base_table |-> base_table,
     err |-> err, errtok |-> errtok]

\* the ValueError of an entry that resolves to no column
SelectError(acc, col_str, all_matches) ==
    [acc EXCEPT !.cache = all_matches.cache,
                !.err = IF all_matches.val # <<>> THEN "ambiguous" ELSE "not_found",
                !.errtok = col_str]

\* the body of the loop over columns_part.split(','), for the column col_str
\* with its aggregate tag, once it is looked up
SelectColumnOf(P, acc, col_str, agg_func, found) ==
    IF found.val = None
    THEN SelectError(acc, col_str, find_all_columns(P, found.cache, col_str))
    ELSE [acc EXCEPT !.cache = found.cache,
                     !.select_columns = Append(@, SelCol(found.val[1], agg_func)),
                     !.base_table = IF @ = <<>> THEN found.val[1].table ELSE @]

SelectColumnAs(P, acc, col_str, agg_func) ==
    SelectColumnOf(P, acc, col_str, agg_func,
                   find_column_for_base(P, acc.cache, col_str, acc.base_table))

\* the body of the loop, for the stripped entry cut at its first colon
SelectColumnAt(P, acc, stripped, parts) ==
    IF stripped = <<>> THEN acc
    ELSE IF Contains(c_colon, stripped) /\ Lower(parts[1]) \in aggregate_funcs
    THEN SelectColumnAs(P, acc, Strip(parts[2]), Upper(parts[1]))
    ELSE SelectColumnAs(P, acc, stripped, <<>>)

SelectColumnIn(P, acc, stripped) == SelectColumnAt(P, acc, stripped, Split1(stripped, c_colon))

\* the body of the loop over columns_part.split(',')
SelectColumn(P, acc, col_str_in) == SelectColumnIn(P, acc, Strip(col_str_in))

RECURSIVE SelectColumns(_, _, _, _)
SelectColumns(P, acc, cols, i) ==
    IF i > Len(cols) \/ acc.err # "" THEN acc
    ELSE SelectColumns(P, SelectColumn(P, acc, cols[i]), cols, i + 1)

RECURSIVE ProcessConditions(_, _, _, _, _)
ProcessConditions(P, acc, conds, i, base_table) ==
    IF i > Len(conds) \/ acc.err # "" THEN acc
    ELSE ProcessConditions(P,
            IF Strip(conds[i]) = <<>> THEN acc
            ELSE _process_condition(P, acc, Strip(conds[i]), base_table),
            conds, i + 1, base_table)

\* re.split(r'\s+and\s+|,', conditions_part, flags=re.IGNORECASE)
SplitConditions(conditions_part) == ReSplit(conditions_part, k_and, {","})

\* A ValueError raised by parse, with the instance's fuzzy cache as it is then.
ParseError(err, errtok, cache) ==
    [ok |-> FALSE, err |-> err, errtok |-> errtok, cache |-> cache,
     select_columns |-> <<>>, base_table |-> <<>>, where_parts |-> <<>>,
     params |-> <<>>, where_tables |-> {}, order_by |-> <<>>, order_dir |-> <<>>]

\* whether the text names a primary column
HasPrimary(head) == head.primary_column # None /\ head.primary_column[1] # <<>>

\* the end of parse: the errors it raises, in the order it raises them, or
\* the ParsedQuery
ParseReturn(cache, head, prim, sel, base_table, cnd) ==
    IF head.format = 0 THEN ParseError("format", <<>>, cache)
    ELSE IF HasPrimary(head) /\ prim.val = None
    THEN ParseError("primary_not_found", head.primary_column[1], prim.cache)
    ELSE IF sel.err # "" THEN ParseError(sel.err, sel.errtok, sel.cache)
    ELSE IF sel.select_columns = <<>> THEN ParseError("no_columns", <<>>, sel.cache)
    ELSE IF cnd.err # "" THEN ParseError(cnd.err, cnd.errtok, cnd.cache)
    ELSE [ok |-> TRUE, err |-> "", errtok |-> <<>>, cache |-> cnd.cache,
          select_columns |-> sel.select_columns, base_table |-> base_table,
          where_parts |-> cnd.where_parts, params |-> cnd.params,
          where_tables |-> cnd.where_tables,
          order_by |-> head.rest.order_by, order_dir |-> head.rest.order_dir]

\* parse, the where conditions: processed against the base table
ParseWhere(P, cache, head, prim, sel, base_table) ==
    ParseReturn(cache, head, prim, sel, base_table,
        IF head.rest.conditions_part = <<>>
        THEN CondAcc(sel.cache, <<>>, <<>>, {}, "", <<>>)
        ELSE ProcessConditions(P, CondAcc(sel.cache, <<>>, <<>>, {}, "", <<>>),
                               SplitConditions(head.rest.conditions_part), 1, base_table))

\* parse, the base table once the select list is resolved
ParseBase(P, cache, head, prim, sel) ==
    ParseWhere(P, cache, head, prim, sel,
        IF head.primary_column = None
        THEN _detect_optimal_base_table(sel.select_columns, sel.base_table)
        ELSE sel.base_table)

\* parse, the select list: the primary column first, then the listed columns
ParseSelect(P, cache, head, prim) ==
    LET acc0 == IF HasPrimary(head)
                THEN SelAcc(prim.cache, <<SelCol(prim.val[1], <<>>)>>, prim.val[1].table, "", <<>>)
                ELSE SelAcc(cache, <<>>, <<>>, "", <<>>)
    IN  ParseBase(P, cache, head, prim,
            IF head.rest.columns_part = <<>> THEN acc0
            ELSE SelectColumns(P, acc0, Split(head.rest.columns_part, c_comma), 1))

\* parse, from the text cut into its parts
ParseHead(P, cache, head) ==
    ParseSelect(P, cache, head, find_column(P, cache, head.primary_column[1], <<>>))

\* parse: the ParsedQuery (ok) or the error, and the fuzzy cache it leaves
parse(P, cache, query_text) == ParseHead(P, cache, ParseFormat(query_text))

(***************************************************************************)
(* build_sql                                                               *)
(***************************************************************************)
q_SELECT_ == <<"S", "E", "L", "E", "C", "T", " ">>
q_FROM_ == <<"F", "R", "O", "M", " ">>
q_LEFT_JOIN_ == <<"L", "E", "F", "T", " ", "J", "O", "I", "N", " ">>
q__ON_ == <<" ", "O", "N", " ">>
q__eq_ == <<" ", "=", " ">>
q__AS_ == <<" ", "A", "S", " ">>
q_WHERE_ == <<"W", "H", "E", "R", "E", " ">>
q__AND_ == <<" ", "A", "N", "D", " ">>
q_GROUP_BY_ == <<"G", "R", "O", "U", "P", " ", "B", "Y", " ">>
q_ORDER_BY_ == <<"O", "R", "D", "E", "R", " ", "B", "Y", " ">>
q_LIMIT_ == <<"L", "I", "M", "I", "T", " ">>
q_True == <<"T", "r", "u", "e">>
q_False == <<"F", "a", "l", "s", "e">>
q_nl == <<"\n">>

IsIdentStart(c) == c \in LowerSet \/ c \in UpperSet \/ c = "_"

IsWordChar(c) == IsIdentStart(c) \/ c \in Digits

\* a name of the form [a-zA-Z_][a-zA-Z0-9_]*
ValidIdentifier(name) ==
    /\ name # <<>>
    /\ IsIdentStart(name[1])
    /\ \A i \in 2..Len(name) : IsWordChar(name[i])

\* VALID_IDENTIFIER_PATTERN.match(name), the pattern being
\* ^[a-zA-Z_][a-zA-Z0-9_]*$ : Python's $ also matches before a final newline
VALID_IDENTIFIER_PATTERN(name) ==
    \/ ValidIdentifier(name)
    \/ /\ Len(name) >= 2
       /\ name[Len(name)] = "\n"
       /\ ValidIdentifier(SubSeq(name, 1, Len(name) - 1))

\* sanitize_identifier: whether it returns (TRUE) or raises ValueError (FALSE)
sanitize_identifier(name) == name # <<>> /\ VALID_IDENTIFIER_PATTERN(name)

always_prefix_cols == {s_name, s_id, s_code, s_type, s_status, s_description, s_title, s_date}

\* _build_column_alias, for the lower-cased names
AliasOf(table_lower, col_lower, alias, used_aliases) ==
    IF alias \in used_aliases
    THEN table_lower \o c_sp \o Replace(col_lower, c_us, c_sp)
    ELSE alias

AliasFor(table_lower, col_lower, used_aliases) ==
    AliasOf(table_lower, col_lower,
            IF col_lower \in always_prefix_cols
            THEN table_lower \o c_sp \o col_lower
            ELSE Replace(col_lower, c_us, c_sp),
            used_aliases)

\* _build_column_alias
_build_column_alias(table, column, used_aliases) ==
    AliasFor(Lower(table), Lower(column), used_aliases)

\* SelectPart with every select column of an aggregate query grouped by
SelectPart_GroupsAll(acc, c, has_aggregate, col_ref, alias) ==
    [acc EXCEPT
        !.used_aliases = @ \cup {alias},
        !.select_parts = Append(@,
            IF c.aggregate # <<>>
            THEN c.aggregate \o c_lparen \o col_ref \o c_rparen \o q__AS_ \o q_dq
                 \o Lower(c.aggregate) \o c_us \o alias \o q_dq
            ELSE col_ref \o q__AS_ \o q_dq \o alias \o q_dq),
        !.group_by_cols = IF has_aggregate THEN Append(@, col_ref) ELSE @]

\* the loop of build_sql over select_columns: the SELECT expressions, the
\* GROUP BY columns and the aliases used
SelectPart(acc, c, has_aggregate, col_ref, alias) ==
    IF c.aggregate # <<>>
    THEN [acc EXCEPT
            !.used_aliases = @ \cup {alias},
            !.select_parts = Append(@,
                c.aggregate \o c_lparen \o col_ref \o c_rparen \o q__AS_ \o q_dq
                \o Lower(c.aggregate) \o c_us \o alias \o q_dq)]
    ELSE [acc EXCEPT
            !.used_aliases = @ \cup {alias},
            !.select_parts = Append(@, col_ref \o q__AS_ \o q_dq \o alias \o q_dq),
            !.group_by_cols = IF has_aggregate THEN Append(@, col_ref) ELSE @]

RECURSIVE SelectParts(_, _, _, _)
SelectParts(select_columns, i, has_aggregate, acc) ==
    IF i > Len(select_columns) THEN acc
    ELSE SelectParts(select_columns, i + 1, has_aggregate,
            SelectPart(acc, select_columns[i], has_aggregate,
                       ColRef(select_columns[i].table, select_columns[i].column),
                       _build_column_alias(select_columns[i].table, select_columns[i].column,
                                           acc.used_aliases)))

\* list(a_set): the set's elements in the process's hash order
RECURSIVE SetToList(_, _)
SetToList(S, order) ==
    IF order = <<>> THEN <<>>
    ELSE (IF order[1] \in S THEN <<order[1]>> ELSE <<>>) \o SetToList(S, Tail(order))


\* JoinClause with the sides of an outgoing relation's ON exchanged
JoinClause_Exchanged(current, next_table, join_info) ==
    q_LEFT_JOIN_ \o q_dq \o next_table \o q_dq \o q__ON_
    \o ColRef(next_table, join_info.target_column) \o q__eq_
    \o ColRef(current, join_info.base_column)

\* LEFT JOIN "next" ON ...
JoinClause(current, next_table, join_info) ==
    IF join_info.join_type = "outgoing"
    THEN q_LEFT_JOIN_ \o q_dq \o next_table \o q_dq \o q__ON_
         \o ColRef(current, join_info.base_column) \o q__eq_
         \o ColRef(next_table, join_info.target_column)
    ELSE q_LEFT_JOIN_ \o q_dq \o next_table \o q_dq \o q__ON_
         \o ColRef(next_table, join_info.target_column) \o q__eq_
         \o ColRef(current, join_info.base_column)

\* What _build_joins has gathered: the clauses and the tables joined.
JoinAcc(join_clauses, joined) == [join_clauses |-> join_clauses, joined |-> joined]

\* the walk along one path that joins every hop, joined before or not
RECURSIVE WalkPath_JoinsAll(_, _, _, _)
WalkPath_JoinsAll(acc, path, i, current) ==
    IF i > Len(path) THEN acc
    ELSE WalkPath_JoinsAll(
            JoinAcc(Append(acc.join_clauses,
                           JoinClause(current, path[i].table, path[i].info)),
                    acc.joined \cup {path[i].table}),
            path, i + 1, path[i].table)

\* the walk of _build_joins along one path
RECURSIVE WalkPath(_, _, _, _)
WalkPath(acc, path, i, current) ==
    IF i > Len(path) THEN acc
    ELSE LET next_table == path[i].table
         IN  WalkPath(
                IF next_table \notin acc.joined
                THEN JoinAcc(Append(acc.join_clauses,
                                    JoinClause(current, next_table, path[i].info)),
                             acc.joined \cup {next_table})
                ELSE acc,
                path, i + 1, next_table)

\* the fallback of _build_joins when no path was found: a direct relation
DirectJoin(P, acc, base_table, target_table) ==
    LET out == IF OdHas(P.relations_cache, base_table)
               THEN OdGet(P.relations_cache, base_table) ELSE <<>>
        oh == {j \in 1..Len(out) : out[j].to_table = target_table}
        inc == IF OdHas(P.relations_cache, target_table)
               THEN OdGet(P.relations_cache, target_table) ELSE <<>>
        ih == {j \in 1..Len(inc) : inc[j].to_table = base_table}
    IN  IF oh # {}
        THEN JoinAcc(Append(acc.join_clauses,
                        q_LEFT_JOIN_ \o q_dq \o target_table \o q_dq \o q__ON_
                        \o ColRef(base_table, out[Min(oh)].from_column) \o q__eq_
                        \o ColRef(target_table, out[Min(oh)].to_column)),
                     acc.joined \cup {target_table})
        ELSE IF ih # {}
        THEN JoinAcc(Append(acc.join_clauses,
                        q_LEFT_JOIN_ \o q_dq \o target_table \o q_dq \o q__ON_
                        \o ColRef(target_table, inc[Min(ih)].from_column) \o q__eq_
                        \o ColRef(base_table, inc[Min(ih)].to_column)),
                     acc.joined \cup {target_table})
        ELSE acc

\* the body of the loop of _build_joins, with the path find_join_path returned
JoinTarget(P, acc, base_table, target_table, path) ==
    IF target_table \in acc.joined THEN acc
    ELSE IF path.found /\ path.path # <<>>
    THEN WalkPath(acc, path.path, 1, base_table)
    ELSE DirectJoin(P, acc, base_table, target_table)

RECURSIVE JoinTargets(_, _, _, _, _)
JoinTargets(P, acc, base_table, targets, i) ==
    IF i > Len(targets) THEN acc
    ELSE JoinTargets(P,
            JoinTarget(P, acc, base_table, targets[i],
                       find_join_path(P, base_table, targets[i])),
            base_table, targets, i + 1)

\* _build_joins: the JOIN clauses (and the tables they join)
_build_joins(P, base_table, tables_needed, order) ==
    JoinTargets(P, JoinAcc(<<>>, {base_table}), base_table,
                SetToList(tables_needed \ {base_table}, order), 1)

\* the end (exclusive) of the run of \w characters of s from i
RECURSIVE WordEnd(_, _)
WordEnd(s, i) == IF i <= Len(s) /\ IsWordChar(s[i]) THEN WordEnd(s, i + 1) ELSE i

\* re.findall(r'"(\w+)"."(\w+)"', part) as the keys table.col, scanning from i
RECURSIVE QuotedPairs(_, _)
QuotedPairs(s, i) ==
    IF i > Len(s) THEN {}
    ELSE LET a == WordEnd(s, i + 1)
             b == WordEnd(s, a + 3)
         IN  IF /\ s[i] = "\""
                /\ a > i + 1
                /\ a + 2 <= Len(s) /\ s[a] = "\"" /\ s[a + 2] = "\""
                /\ b > a + 3
                /\ b <= Len(s) /\ s[b] = "\""
             THEN {SubSeq(s, i + 1, a - 1) \o c_dot \o SubSeq(s, a + 3, b - 1)}
                  \cup QuotedPairs(s, b + 1)
             ELSE QuotedPairs(s, i + 1)

\* str(value) of a parameter value
PyToStr(v) == IF v.py = "bool" THEN (IF v.b THEN q_True ELSE q_False) ELSE v.s

\* What _build_default_filters has gathered.
FilterAcc(where_parts, params, applied, existing) ==
    [where_parts |-> where_parts, params |-> params, applied_filters |-> applied,
     existing_filters |-> existing]

RECURSIVE TableFilters(_, _, _, _)
TableFilters(acc, table, filters, j) ==
    IF j > Len(filters) THEN acc
    ELSE LET flt == filters[j]
             key == table \o c_dot \o flt.column
             op == IF flt.op = None THEN o_eq ELSE flt.op[1]
         IN  TableFilters(
                IF key \in acc.existing_filters THEN acc
                ELSE FilterAcc(
                        Append(acc.where_parts, ColRef(table, flt.column) \o c_sp \o op \o c_sp \o q_ph),
                        Append(acc.params, flt.value),
                        Append(acc.applied_filters, key \o op \o PyToStr(flt.value)),
                        acc.existing_filters \cup {key}),
                table, filters, j + 1)

RECURSIVE FilterTables(_, _, _, _)
FilterTables(P, acc, tables, i) ==
    IF i > Len(tables) THEN acc
    ELSE FilterTables(P,
            IF DictHas(P.config.default_filters, tables[i])
            THEN TableFilters(acc, tables[i], P.config.default_filters[tables[i]], 1)
            ELSE acc,
            tables, i + 1)

\* _build_default_filters
_build_default_filters(P, tables, existing_where_parts, order) ==
    FilterTables(P,
        FilterAcc(<<>>, <<>>, <<>>,
                  UNION {QuotedPairs(existing_where_parts[i], 1) :
                            i \in 1..Len(existing_where_parts)}),
        SetToList(tables, order), 1)

\* What build_sql returns: (sql, params, applied_default_filters) when ok, a
\* ValueError otherwise; and the fuzzy cache and the ParsedQuery it leaves.
BuildResult(ok, err, sql, params, applied, cache, parsed) ==
    [ok |-> ok, err |-> err, sql |-> sql, params |-> params,
     applied_default_filters |-> applied, cache |-> cache, parsed |-> parsed]

\* build_sql appending to the lists of the ParsedQuery themselves
ListCopied_Aliased(lst, more) == lst \o more

\* list(lst): build_sql works on copies of the where_parts and the params of
\* the ParsedQuery, so what it appends (more) stays out of the lists the
\* ParsedQuery holds.  What such a list holds when build_sql returns:
ListCopied(lst, more) == lst

\* the ParsedQuery when build_sql returns
ParsedAfter(parsed, dflt) ==
    [parsed EXCEPT !.where_parts = ListCopied(@, dflt.where_parts),
                   !.params = ListCopied(@, dflt.params)]

\* the text build_sql puts together
SqlText(parsed, sp, joins, where_parts, ord, limit) ==
    q_SELECT_ \o Join(sp.select_parts, q_comma_sp)
    \o q_nl \o q_FROM_ \o q_dq \o parsed.base_table \o q_dq
    \o (IF joins # <<>> THEN q_nl \o Join(joins, q_nl) ELSE <<>>)
    \o (IF where_parts # <<>>
        THEN q_nl \o q_WHERE_ \o Join(where_parts, q__AND_) ELSE <<>>)
    \o (IF sp.group_by_cols # <<>>
        THEN q_nl \o q_GROUP_BY_ \o Join(sp.group_by_cols, q_comma_sp) ELSE <<>>)
    \o (IF parsed.order_by # <<>> /\ ord.val # None
        THEN q_nl \o q_ORDER_BY_ \o ColRef(ord.val[1].table, ord.val[1].column)
             \o c_sp \o parsed.order_dir
        ELSE <<>>)
    \o q_nl \o q_LIMIT_ \o IntStr(limit)

\* build_sql, from the select parts, the joins, the default filters and the
\* order by column
BuildSqlOf(cache, parsed, limit, sp, joins, dflt, ord) ==
    BuildResult(TRUE, "",
                SqlText(parsed, sp, joins, parsed.where_parts \o dflt.where_parts, ord, limit),
                parsed.params \o dflt.params, dflt.applied_filters,
                IF parsed.order_by # <<>> THEN ord.cache ELSE cache,
                ParsedAfter(parsed, dflt))

\* build_sql
build_sql(P, cache, parsed, limit, apply_default_filters, order) ==
    LET select_columns == parsed.select_columns
        base_table == parsed.base_table
        n == Len(select_columns)
        sane == /\ sanitize_identifier(base_table)
                /\ \A i \in 1..n : /\ sanitize_identifier(select_columns[i].table)
                                   /\ sanitize_identifier(select_columns[i].column)
        has_aggregate == \E i \in 1..n : select_columns[i].aggregate # <<>>
        tables_needed == {select_columns[i].table : i \in 1..n} \cup parsed.where_tables
        use_defaults == apply_default_filters /\ DOMAIN P.config.default_filters # {}
    IN  IF ~sane THEN BuildResult(FALSE, "invalid_identifier", <<>>, <<>>, <<>>, cache, parsed)
        ELSE BuildSqlOf(cache, parsed, limit,
                SelectParts(select_columns, 1, has_aggregate,
                            [select_parts |-> <<>>, group_by_cols |-> <<>>,
                             used_aliases |-> {}]),
                _build_joins(P, base_table, tables_needed, order).join_clauses,
                IF use_defaults
                THEN _build_default_filters(P, {base_table} \cup tables_needed,
                                            parsed.where_parts, order)
                ELSE FilterAcc(<<>>, <<>>, <<>>, {}),
                find_column(P, cache, parsed.order_by, base_table))

\* The limit build_sql is called with when the caller gives none.
DefaultLimit == 1000

(***************************************************************************)
(* The schemas, configurations, query texts and tokens of the model        *)
(***************************************************************************)
s_job_number == <<"j", "o", "b", "_", "n", "u", "m", "b", "e", "r">>
s_company_id == <<"c", "o", "m", "p", "a", "n", "y", "_", "i", "d">>
s_company_name == <<"c", "o", "m", "p", "a", "n", "y", "_", "n", "a", "m", "e">>
s_is_completed == <<"i", "s", "_", "c", "o", "m", "p", "l", "e", "t", "e", "d">>
s_job_dot_id == <<"j", "o", "b", ".", "i", "d">>
s_zzz == <<"z", "z", "z">>
s_number == <<"n", "u", "m", "b", "e", "r">>
s_job_number_2 == <<"j", "o", "b", " ", "n", "u", "m", "b", "e", "r">>
s_job_id == <<"j", "o", "b", "_", "i", "d">>
s_qty == <<"q", "t", "y">>
s_created == <<"c", "r", "e", "a", "t", "e", "d">>
s_is_deleted == <<"i", "s", "_", "d", "e", "l", "e", "t", "e", "d">>
s_j_dot_id == <<"j", ".", "i", "d">>
v_open == <<"o", "p", "e", "n">>
s_job_detail_dot_id == <<"j", "o", "b", "_", "d", "e", "t", "a", "i", "l", ".", "i", "d">>
s_talent_id == <<"t", "a", "l", "e", "n", "t", "_", "i", "d">>
s_parent_id == <<"p", "a", "r", "e", "n", "t", "_", "i", "d">>
v_x == <<"x">>
s_amount == <<"a", "m", "o", "u", "n", "t">>
s_unit_price == <<"u", "n", "i", "t", " ", "p", "r", "i", "c", "e">>
s_a_b == <<"a", "_", "b">>
s_ab == <<"a", "b">>
s_Paid_On == <<"P", "a", "i", "d", "_", "O", "n">>
s_is_paid == <<"i", "s", "_", "p", "a", "i", "d">>
s_job_dot_ab == <<"j", "o", "b", ".", "a", "b">>
s_owner == <<"o", "w", "n", "e", "r">>
s_company_dot_name == <<"c", "o", "m", "p", "a", "n", "y", ".", "n", "a", "m", "e">>

Col(n, t) == [name |-> n, type |-> t]

Tbl(n, cols) == [k |-> n, v |-> [columns |-> cols]]

Rel(fc, tt, tc) == [from_column |-> fc, to_table |-> tt, to_column |-> tc]

Rels(t, rels) == [k |-> t, v |-> rels]

Alias(a, t, c) == [k |-> a, v |-> ColInfo(t, c)]

StatusTo(col, val) == [column |-> col, value |-> val]

Flt(col, op, value) == [column |-> col, op |-> op, value |-> value]

\* config.get('status_keywords', ['status', 'state', 'kondisi'])
default_status_keywords == <<s_status, s_state, s_kondisi>>

\* show job_number, company_name where status=completed
Q1 == <<"s", "h", "o", "w", " ", "j", "o", "b", "_", "n", "u", "m", "b", "e", "r", ",", " ", "c", "o", "m", "p", "a", "n", "y", "_", "n", "a", "m", "e", " ", "w", "h", "e", "r", "e", " ", "s", "t", "a", "t", "u", "s", "=", "c", "o", "m", "p", "l", "e", "t", "e", "d">>

\* show company_name, job_number
Q2 == <<"s", "h", "o", "w", " ", "c", "o", "m", "p", "a", "n", "y", "_", "n", "a", "m", "e", ",", " ", "j", "o", "b", "_", "n", "u", "m", "b", "e", "r">>

\* primary company_name show job_number where id=7
Q3 == <<"p", "r", "i", "m", "a", "r", "y", " ", "c", "o", "m", "p", "a", "n", "y", "_", "n", "a", "m", "e", " ", "s", "h", "o", "w", " ", "j", "o", "b", "_", "n", "u", "m", "b", "e", "r", " ", "w", "h", "e", "r", "e", " ", "i", "d", "=", "7">>

\* name: job_number, count:id where company_id>=7 order by job_number desc
Q4 == <<"n", "a", "m", "e", ":", " ", "j", "o", "b", "_", "n", "u", "m", "b", "e", "r", ",", " ", "c", "o", "u", "n", "t", ":", "i", "d", " ", "w", "h", "e", "r", "e", " ", "c", "o", "m", "p", "a", "n", "y", "_", "i", "d", ">", "=", "7", " ", "o", "r", "d", "e", "r", " ", "b", "y", " ", "j", "o", "b", "_", "n", "u", "m", "b", "e", "r", " ", "d", "e", "s", "c">>

\* show job_number where zzz=7
Q5 == <<"s", "h", "o", "w", " ", "j", "o", "b", "_", "n", "u", "m", "b", "e", "r", " ", "w", "h", "e", "r", "e", " ", "z", "z", "z", "=", "7">>

\* show job_number, amount
Q6 == <<"s", "h", "o", "w", " ", "j", "o", "b", "_", "n", "u", "m", "b", "e", "r", ",", " ", "a", "m", "o", "u", "n", "t">>

\* show job_number where name=acme/7
Q7 == <<"s", "h", "o", "w", " ", "j", "o", "b", "_", "n", "u", "m", "b", "e", "r", " ", "w", "h", "e", "r", "e", " ", "n", "a", "m", "e", "=", "a", "c", "m", "e", "/", "7">>

\* show job_number where created=2025-01-01..2025-12-31 order by created desc
Q8 == <<"s", "h", "o", "w", " ", "j", "o", "b", "_", "n", "u", "m", "b", "e", "r", " ", "w", "h", "e", "r", "e", " ", "c", "r", "e", "a", "t", "e", "d", "=", "2", "0", "2", "5", "-", "0", "1", "-", "0", "1", ".", ".", "2", "0", "2", "5", "-", "1", "2", "-", "3", "1", " ", "o", "r", "d", "e", "r", " ", "b", "y", " ", "c", "r", "e", "a", "t", "e", "d", " ", "d", "e", "s", "c">>

\* show job_number where unit price=7 and a_b<7
Q9 == <<"s", "h", "o", "w", " ", "j", "o", "b", "_", "n", "u", "m", "b", "e", "r", " ", "w", "h", "e", "r", "e", " ", "u", "n", "i", "t", " ", "p", "r", "i", "c", "e", "=", "7", " ", "a", "n", "d", " ", "a", "_", "b", "<", "7">>

\* show qty, number where created=done, paid_on is null
Q10 == <<"s", "h", "o", "w", " ", "q", "t", "y", ",", " ", "n", "u", "m", "b", "e", "r", " ", "w", "h", "e", "r", "e", " ", "c", "r", "e", "a", "t", "e", "d", "=", "d", "o", "n", "e", ",", " ", "p", "a", "i", "d", "_", "o", "n", " ", "i", "s", " ", "n", "u", "l", "l">>

\* show amount where status=paid/zzz order by amount
Q11 == <<"s", "h", "o", "w", " ", "a", "m", "o", "u", "n", "t", " ", "w", "h", "e", "r", "e", " ", "s", "t", "a", "t", "u", "s", "=", "p", "a", "i", "d", "/", "z", "z", "z", " ", "o", "r", "d", "e", "r", " ", "b", "y", " ", "a", "m", "o", "u", "n", "t">>

\* SHOW Job_Number WHERE Status=Open AND id IN (7,8)
Q12 == <<"S", "H", "O", "W", " ", "J", "o", "b", "_", "N", "u", "m", "b", "e", "r", " ", "W", "H", "E", "R", "E", " ", "S", "t", "a", "t", "u", "s", "=", "O", "p", "e", "n", " ", "A", "N", "D", " ", "i", "d", " ", "I", "N", " ", "(", "7", ",", "8", ")">>

\* select job_number
Q13 == <<"s", "e", "l", "e", "c", "t", " ", "j", "o", "b", "_", "n", "u", "m", "b", "e", "r">>

\* show job.id, job_detail.qty
Q14 == <<"s", "h", "o", "w", " ", "j", "o", "b", ".", "i", "d", ",", " ", "j", "o", "b", "_", "d", "e", "t", "a", "i", "l", ".", "q", "t", "y">>

\* show job_number order by job_number desc limit 5
Q15 == <<"s", "h", "o", "w", " ", "j", "o", "b", "_", "n", "u", "m", "b", "e", "r", " ", "o", "r", "d", "e", "r", " ", "b", "y", " ", "j", "o", "b", "_", "n", "u", "m", "b", "e", "r", " ", "d", "e", "s", "c", " ", "l", "i", "m", "i", "t", " ", "5">>

\* show job_number where name!=acme
Q16 == <<"s", "h", "o", "w", " ", "j", "o", "b", "_", "n", "u", "m", "b", "e", "r", " ", "w", "h", "e", "r", "e", " ", "n", "a", "m", "e", "!", "=", "a", "c", "m", "e">>

\* show qty, company.name
Q17 == <<"s", "h", "o", "w", " ", "q", "t", "y", ",", " ", "c", "o", "m", "p", "a", "n", "y", ".", "n", "a", "m", "e">>

\* show count:id, max:id
Q18 == <<"s", "h", "o", "w", " ", "c", "o", "u", "n", "t", ":", "i", "d", ",", " ", "m", "a", "x", ":", "i", "d">>

\* show job_number, sum:qty where is_deleted=true
Q19 == <<"s", "h", "o", "w", " ", "j", "o", "b", "_", "n", "u", "m", "b", "e", "r", ",", " ", "s", "u", "m", ":", "q", "t", "y", " ", "w", "h", "e", "r", "e", " ", "i", "s", "_", "d", "e", "l", "e", "t", "e", "d", "=", "t", "r", "u", "e">>

\* show qty, company.name, talent.name
Q20 == <<"s", "h", "o", "w", " ", "q", "t", "y", ",", " ", "c", "o", "m", "p", "a", "n", "y", ".", "n", "a", "m", "e", ",", " ", "t", "a", "l", "e", "n", "t", ".", "n", "a", "m", "e">>

\* show job_number order by name desc
Q21 == <<"s", "h", "o", "w", " ", "j", "o", "b", "_", "n", "u", "m", "b", "e", "r", " ", "o", "r", "d", "e", "r", " ", "b", "y", " ", "n", "a", "m", "e", " ", "d", "e", "s", "c">>

\* show job_number, ab order by ab
Q22 == <<"s", "h", "o", "w", " ", "j", "o", "b", "_", "n", "u", "m", "b", "e", "r", ",", " ", "a", "b", " ", "o", "r", "d", "e", "r", " ", "b", "y", " ", "a", "b">>

\* show id
Q23 == <<"s", "h", "o", "w", " ", "i", "d">>

\* show id, id
Q24 == <<"s", "h", "o", "w", " ", "i", "d", ",", " ", "i", "d">>

\* job and company, one foreign key; job has no boolean column
WorldA ==
    [schema_cache |-> <<
          Tbl(s_job, <<Col(s_id, t_integer), Col(s_job_number, t_varchar), Col(s_company_id, t_integer)>>), 
          Tbl(s_company, <<Col(s_id, t_integer), Col(s_name, t_varchar)>>)>>,
     relations_cache |-> <<
          Rels(s_job, <<Rel(s_company_id, s_company, s_id)>>)>>,
     config |-> [custom_mappings |-> <<Alias(s_company_name, s_company, s_name)>>,
                 status_mappings |-> (v_completed :> StatusTo(s_is_completed, TRUE)),
                 status_keywords |-> default_status_keywords,
                 default_filters |-> EmptyDict,
                 preferred_paths |-> EmptyDict],
     tables |-> <<s_job, s_company>>,
     queries |-> {Q1, Q2, Q3, Q5, Q13, Q15, Q21},
     tokens |-> {s_company_name, s_job_dot_id, s_zzz, s_number}]

\* WorldA with the boolean column job.is_completed
WorldB ==
    [schema_cache |-> <<
          Tbl(s_job, <<Col(s_id, t_integer), Col(s_job_number, t_varchar), Col(s_company_id, t_integer), Col(s_is_completed, t_boolean)>>), 
          Tbl(s_company, <<Col(s_id, t_integer), Col(s_name, t_varchar)>>)>>,
     relations_cache |-> <<
          Rels(s_job, <<Rel(s_company_id, s_company, s_id)>>)>>,
     config |-> [custom_mappings |-> <<Alias(s_company_name, s_company, s_name)>>,
                 status_mappings |-> (v_completed :> StatusTo(s_is_completed, TRUE)),
                 status_keywords |-> default_status_keywords,
                 default_filters |-> EmptyDict,
                 preferred_paths |-> EmptyDict],
     tables |-> <<s_job, s_company>>,
     queries |-> {Q1, Q2, Q4, Q7, Q16, Q18},
     tokens |-> {s_company_name, s_name, s_job_number_2, s_number}]

\* a table name that is a prefix of another, a chain of foreign keys, aliases that collide with schema keys, a default filter, a preferred path
WorldC ==
    [schema_cache |-> <<
          Tbl(s_job_detail, <<Col(s_id, t_integer), Col(s_job_id, t_integer), Col(s_qty, t_integer)>>), 
          Tbl(s_job, <<Col(s_id, t_integer), Col(s_job_number, t_varchar), Col(s_company_id, t_integer), Col(s_is_completed, t_boolean), Col(s_created, t_date)>>), 
          Tbl(s_company, <<Col(s_id, t_integer), Col(s_name, t_varchar), Col(s_is_deleted, t_boolean)>>)>>,
     relations_cache |-> <<
          Rels(s_job_detail, <<Rel(s_job_id, s_job, s_id)>>), 
          Rels(s_job, <<Rel(s_company_id, s_company, s_id)>>)>>,
     config |-> [custom_mappings |-> <<Alias(s_id, s_company, s_id), Alias(s_j_dot_id, s_company, s_id)>>,
                 status_mappings |-> (v_completed :> StatusTo(s_is_completed, TRUE) @@ v_open :> StatusTo(s_is_completed, FALSE)),
                 status_keywords |-> default_status_keywords,
                 default_filters |-> (s_company :> <<Flt(s_is_deleted, Some(o_eq), PyBool(FALSE))>>),
                 preferred_paths |-> (<<s_job_detail, s_company>> :> <<s_job>>)],
     tables |-> <<s_job_detail, s_job, s_company>>,
     queries |-> {Q1, Q7, Q8, Q10, Q12, Q14, Q24},
     tokens |-> {s_job_dot_id, s_job_detail_dot_id, s_j_dot_id, s_id, s_number}]

\* a cyclic foreign-key graph with a self reference and a low-relevance table; preferred paths that repeat a table, that are valid, and that are invalid
WorldD ==
    [schema_cache |-> <<
          Tbl(s_job, <<Col(s_id, t_integer), Col(s_job_number, t_varchar), Col(s_company_id, t_integer), Col(s_talent_id, t_integer)>>), 
          Tbl(s_company, <<Col(s_id, t_integer), Col(s_name, t_varchar), Col(s_parent_id, t_integer)>>), 
          Tbl(s_talent, <<Col(s_id, t_integer), Col(s_name, t_varchar), Col(s_company_id, t_integer)>>), 
          Tbl(s_file_content, <<Col(s_id, t_integer), Col(s_job_id, t_integer), Col(s_talent_id, t_integer)>>)>>,
     relations_cache |-> <<
          Rels(s_job, <<Rel(s_company_id, s_company, s_id), Rel(s_talent_id, s_talent, s_id)>>), 
          Rels(s_company, <<Rel(s_parent_id, s_company, s_id)>>), 
          Rels(s_talent, <<Rel(s_company_id, s_company, s_id)>>), 
          Rels(s_file_content, <<Rel(s_job_id, s_job, s_id), Rel(s_talent_id, s_talent, s_id)>>)>>,
     config |-> [custom_mappings |-> <<>>,
                 status_mappings |-> EmptyDict,
                 status_keywords |-> default_status_keywords,
                 default_filters |-> (s_company :> <<Flt(s_name, Some(o_ne), PyStr(v_x))>>),
                 preferred_paths |-> (<<s_job, s_company>> :> <<s_company, s_job>> @@ <<s_job, s_talent>> :> <<s_company>> @@ <<s_talent, s_job>> :> <<s_file_content, s_company>>)],
     tables |-> <<s_job, s_company, s_talent, s_file_content>>,
     queries |-> {Q2, Q3, Q6, Q7},
     tokens |-> {s_name, s_job_dot_id, s_amount}]

\* two unrelated tables, a column name that is no SQL identifier, columns that differ by an underscore, an upper-case column name
WorldE ==
    [schema_cache |-> <<
          Tbl(s_job, <<Col(s_id, t_integer), Col(s_job_number, t_varchar), Col(s_is_completed, t_boolean), Col(s_unit_price, t_integer), Col(s_a_b, t_integer), Col(s_ab, t_integer)>>), 
          Tbl(s_payment, <<Col(s_id, t_integer), Col(s_amount, t_integer), Col(s_Paid_On, t_timestamp), Col(s_is_paid, t_boolean)>>)>>,
     relations_cache |-> <<>>,
     config |-> [custom_mappings |-> <<>>,
                 status_mappings |-> EmptyDict,
                 status_keywords |-> <<s_status, s_state>>,
                 default_filters |-> (s_job :> <<Flt(s_is_completed, None, PyBool(FALSE))>>),
                 preferred_paths |-> EmptyDict],
     tables |-> <<s_job, s_payment>>,
     queries |-> {Q3, Q5, Q6, Q9, Q11, Q22, Q23},
     tokens |-> {s_job_dot_ab, s_amount, s_zzz, s_company_name, s_job_number_2}]

\* a chain of foreign keys with a costly direct key beside a cheap detour, a table no key reaches, a default filter on a table that joins lie across
WorldF ==
    [schema_cache |-> <<
          Tbl(s_job_detail, <<Col(s_id, t_integer), Col(s_job_id, t_integer), Col(s_qty, t_integer)>>), 
          Tbl(s_job, <<Col(s_id, t_integer), Col(s_job_number, t_varchar), Col(s_owner, t_integer), Col(s_talent_id, t_integer), Col(s_is_deleted, t_boolean)>>), 
          Tbl(s_talent, <<Col(s_id, t_integer), Col(s_name, t_varchar), Col(s_company_id, t_integer)>>), 
          Tbl(s_company, <<Col(s_id, t_integer), Col(s_name, t_varchar)>>), 
          Tbl(s_payment, <<Col(s_id, t_integer), Col(s_amount, t_integer)>>)>>,
     relations_cache |-> <<
          Rels(s_job_detail, <<Rel(s_job_id, s_job, s_id)>>), 
          Rels(s_job, <<Rel(s_owner, s_company, s_id), Rel(s_talent_id, s_talent, s_id)>>), 
          Rels(s_talent, <<Rel(s_company_id, s_company, s_id)>>)>>,
     config |-> [custom_mappings |-> <<>>,
                 status_mappings |-> EmptyDict,
                 status_keywords |-> default_status_keywords,
                 default_filters |-> (s_job :> <<Flt(s_is_deleted, None, PyBool(FALSE))>>),
                 preferred_paths |-> EmptyDict],
     tables |-> <<s_job_detail, s_job, s_talent, s_company, s_payment>>,
     queries |-> {Q17, Q19, Q20},
     tokens |-> {s_company_dot_name, s_qty}]

Worlds == {WorldA, WorldB, WorldC, WorldD, WorldE, WorldF}

(***************************************************************************)
(* The state machine: one QueryParser instance and its caller              *)
(***************************************************************************)
vars == <<schema_cache, relations_cache, config, column_map, table_columns,
          reverse_relations, fuzzy_cache, hash_order, pc, call, result,
          parsed_query, search, threads>>

\* what __init__ sets and no method assigns again
instance == <<schema_cache, relations_cache, config, column_map, table_columns,
              reverse_relations, hash_order>>

\* QueryParser.__init__ on a world's schema, relations and configuration
QueryParser(w) ==
    Parser(w.schema_cache, w.relations_cache, w.config,
           _build_column_map(w.schema_cache, w.config.custom_mappings),
           BuildTableColumns(w.schema_cache),
           _build_reverse_relations(w.relations_cache))

\* self
Self == Parser(schema_cache, relations_cache, config, column_map, table_columns,
               reverse_relations)

Reverse(s) == [i \in 1..Len(s) |-> s[Len(s) + 1 - i]]

\* the iteration orders of a set of table names that the model's processes have
HashOrders(w) == {w.tables, Reverse(w.tables)}

\* the world the instance was constructed on
World == CHOOSE w \in Worlds : w.schema_cache = schema_cache /\ w.config = config

\* the query texts and the column tokens a caller passes
Queries == World.queries

Tokens == World.tokens

\* the table arguments a caller passes: None and the schema's tables
TableArgs == {<<>>} \cup {schema_cache[i].k : i \in 1..Len(schema_cache)}

\* the limit arguments a caller passes
Limits == {0, DefaultLimit}

NoCall == [op |-> "none"]

\* no call has returned: a record, as every result is
NoResult == [returned |-> FALSE]

\* the caller holds no ParsedQuery
NoParsed == [ok |-> FALSE]

\* no find_join_path is in progress
NoSearch == [active |-> FALSE]

\* the threads that share the instance besides the caller
Threads == 1..NumThreads

\* a thread outside any call
IdleThread == [at |-> "idle"]

\* no thread is inside a call
NoThreads == [t \in Threads |-> IdleThread]

Init ==
    \E w \in Worlds : \E order \in HashOrders(w) : \E P \in {QueryParser(w)} :
        /\ schema_cache = P.schema_cache
        /\ relations_cache = P.relations_cache
        /\ config = P.config
        /\ column_map = P.column_map
        /\ table_columns = P.table_columns
        /\ reverse_relations = P.reverse_relations
        /\ fuzzy_cache = EmptyDict
        /\ hash_order = order
        /\ pc = "idle"
        /\ call = NoCall
        /\ result = NoResult
        /\ parsed_query = NoParsed
        /\ search = NoSearch
        /\ threads = NoThreads

\* a call returns r and leaves the fuzzy cache as the call filled it; a column
\* lookup returns r.val
Returns(r) ==
    /\ result' = r
    /\ fuzzy_cache' = r.cache

\* parser.parse(query_text): returns the ParsedQuery or raises ValueError
Parse(query_text) ==
    /\ pc = "idle"
    /\ Returns(parse(Self, fuzzy_cache, query_text))
    /\ parsed_query' = result'
    /\ call' = [op |-> "parse", query_text |-> query_text]
    /\ pc' = "parsed"
    /\ UNCHANGED <<instance, threads, search>>

\* parser.build_sql(parsed, limit, apply_default_filters) on the ParsedQuery
\* the caller holds: the one parse just returned, or the one it has built
\* SQL from already
BuildSql(limit, apply_default_filters) ==
    /\ pc \in {"parsed", "built"}
    /\ parsed_query.ok
    /\ Returns(build_sql(Self, fuzzy_cache, parsed_query, limit, apply_default_filters,
                         hash_order))
    /\ parsed_query' = result'.parsed
    /\ call' = [op |-> "build_sql", query_text |-> call.query_text, parsed |-> parsed_query,
                limit |-> limit, apply_default_filters |-> apply_default_filters]
    /\ pc' = "built"
    /\ UNCHANGED <<instance, threads, search>>

\* parser.find_column(col_part, prefer_table)
FindColumn(col_part, prefer_table) ==
    /\ pc = "idle"
    /\ Returns(find_column(Self, fuzzy_cache, col_part, prefer_table))
    /\ call' = [op |-> "find_column", col_part |-> col_part, table |-> prefer_table]
    /\ pc' = "returned"
    /\ UNCHANGED <<instance, threads, parsed_query, search>>

\* parser.find_column_for_base(col_part, base_table)
FindColumnForBase(col_part, base_table) ==
    /\ pc = "idle"
    /\ Returns(find_column_for_base(Self, fuzzy_cache, col_part, base_table))
    /\ call' = [op |-> "find_column_for_base", col_part |-> col_part, table |-> base_table]
    /\ pc' = "returned"
    /\ UNCHANGED <<instance, threads, parsed_query, search>>

\* parser.find_all_columns(col_part)
FindAllColumns(col_part) ==
    /\ pc = "idle"
    /\ Returns(find_all_columns(Self, fuzzy_cache, col_part))
    /\ call' = [op |-> "find_all_columns", col_part |-> col_part]
    /\ pc' = "returned"
    /\ UNCHANGED <<instance, threads, parsed_query, search>>

\* parser.find_join_path(base_table, target_table), up to the while loop
JoinPathStart(base_table, target_table) ==
    /\ pc = "idle"
    /\ search' = SearchStart(Self, base_table, target_table)
    /\ call' = [op |-> "find_join_path", base_table |-> base_table,
                target_table |-> target_table]
    /\ pc' = "searching"
    /\ UNCHANGED <<instance, threads, fuzzy_cache, result, parsed_query>>

\* one turn of find_join_path's while loop
JoinPathStep ==
    /\ pc = "searching"
    /\ ~search.done
    /\ search' = SearchPop(Self, search)
    /\ UNCHANGED <<instance, threads, fuzzy_cache, pc, call, result, parsed_query>>

\* find_join_path returns
JoinPathReturn ==
    /\ pc = "searching"
    /\ search.done
    /\ result' = search.result
    /\ search' = NoSearch
    /\ pc' = "returned"
    /\ UNCHANGED <<instance, threads, fuzzy_cache, call, parsed_query>>

\* the caller takes the result (or catches the ValueError) and is free to call again
Return ==
    /\ pc \in {"parsed", "built", "returned"}
    /\ pc' = "idle"
    /\ call' = NoCall
    /\ result' = NoResult
    /\ parsed_query' = NoParsed
    /\ UNCHANGED <<instance, threads, fuzzy_cache, search>>

Next ==
    \/ \E q \in Queries : Parse(q)
    \/ \E limit \in Limits, apply \in BOOLEAN : BuildSql(limit, apply)
    \/ \E t \in Tokens, p \in TableArgs : FindColumn(t, p)
    \/ \E t \in Tokens, b \in TableArgs : FindColumnForBase(t, b)
    \/ \E t \in Tokens : FindAllColumns(t)
    \/ \E b \in TableArgs \ {<<>>}, t \in TableArgs \ {<<>>} : JoinPathStart(b, t)
    \/ JoinPathStep
    \/ JoinPathReturn
    \/ Return

Spec == Init /\ [][Next]_vars

\* the scheduler runs a call in progress to its return
FairSpec == Spec /\ WF_vars(JoinPathStep) /\ WF_vars(JoinPathReturn)

(***************************************************************************)
(* Several threads calling the column lookups of one instance.  CPython    *)
(* switches threads between bytecodes: a dict lookup, len() and a dict     *)
(* store are each atomic, and nothing in parser.py holds a lock across     *)
(* them.  The steps below are the shared accesses of _fuzzy_search; what a *)
(* lookup does before and after them reads only what __init__ built.       *)
(***************************************************************************)
\* a column lookup, sequentially, on a given cache
Lookup(c, cache) ==
    IF c.op = "find_column" THEN find_column(Self, cache, c.col_part, c.table)
    ELSE IF c.op = "find_column_for_base"
    THEN find_column_for_base(Self, cache, c.col_part, c.table)
    ELSE find_all_columns(Self, cache, c.col_part)

\* the search terms a lookup hands to _fuzzy_search: what it leaves in an
\* empty cache (none when column_map answers it)
FuzzyTerms(c) == DOMAIN Lookup(c, EmptyDict).cache

\* the lookups a thread makes: each token, with no preferred table, with the
\* schema's first table as the base table, and through find_all_columns
ThreadCalls ==
    {[op |-> "find_column", col_part |-> tok, table |-> <<>>] : tok \in Tokens}
    \cup {[op |-> "find_column_for_base", col_part |-> tok, table |-> schema_cache[1].k]
           : tok \in Tokens}
    \cup {[op |-> "find_all_columns", col_part |-> tok, table |-> <<>>] : tok \in Tokens}

\* a thread's next state
ThreadAt(t, th) ==
    /\ threads' = [threads EXCEPT ![t] = th]
    /\ UNCHANGED <<instance, pc, call, result, parsed_query, search>>

\* thread t enters a lookup and runs it up to _fuzzy_search; a lookup that
\* column_map answers returns without touching the cache
ThreadCall(t, c) ==
    /\ threads[t].at = "idle"
    /\ IF FuzzyTerms(c) = {}
       THEN ThreadAt(t, [at |-> "returned", call |-> c, val |-> Lookup(c, EmptyDict).val])
       ELSE ThreadAt(t, [at |-> "fuzzy", call |-> c,
                         search_term |-> CHOOSE k \in FuzzyTerms(c) : TRUE])
    /\ UNCHANGED fuzzy_cache

\* _fuzzy_search, `if search_term in self._fuzzy_cache: return ...`, and on
\* a miss the scan of table_columns
ThreadCacheCheck(t) ==
    /\ threads[t].at = "fuzzy"
    /\ IF DictHas(fuzzy_cache, threads[t].search_term)
       THEN ThreadAt(t, [at |-> "matched", call |-> threads[t].call,
                         search_term |-> threads[t].search_term,
                         matches |-> fuzzy_cache[threads[t].search_term]])
       ELSE ThreadAt(t, [at |-> "scanned", call |-> threads[t].call,
                         search_term |-> threads[t].search_term,
                         matches |-> FuzzyScan(Self, threads[t].search_term)])
    /\ UNCHANGED fuzzy_cache

\* _fuzzy_search, `if len(self._fuzzy_cache) < 1000:`
ThreadSizeCheck(t) ==
    /\ threads[t].at = "scanned"
    /\ ThreadAt(t, [threads[t] EXCEPT
                       !.at = IF Cardinality(DOMAIN fuzzy_cache) < FuzzyCacheMax
                              THEN "storing" ELSE "matched"])
    /\ UNCHANGED fuzzy_cache

\* _fuzzy_search, `self._fuzzy_cache[search_term] = result`
ThreadStore(t) ==
    /\ threads[t].at = "storing"
    /\ fuzzy_cache' = DictSet(fuzzy_cache, threads[t].search_term, threads[t].matches)
    /\ ThreadAt(t, [threads[t] EXCEPT !.at = "matched"])

\* the lookup goes on with the matches _fuzzy_search returned, and returns
ThreadFinish(t) ==
    /\ threads[t].at = "matched"
    /\ ThreadAt(t, [at |-> "returned", call |-> threads[t].call,
                    val |-> Lookup(threads[t].call,
                                   DictSet(EmptyDict, threads[t].search_term,
                                           threads[t].matches)).val])
    /\ UNCHANGED fuzzy_cache

\* the thread takes the result and is free to call again
ThreadReturn(t) ==
    /\ threads[t].at = "returned"
    /\ ThreadAt(t, IdleThread)
    /\ UNCHANGED fuzzy_cache

ThreadNext ==
    \E t \in Threads :
        \/ \E c \in ThreadCalls : ThreadCall(t, c)
        \/ ThreadCacheCheck(t)
        \/ ThreadSizeCheck(t)
        \/ ThreadStore(t)
        \/ ThreadFinish(t)
        \/ ThreadReturn(t)

\* the lookups iterate no set of table names: one iteration order stands for all
ThreadInit == Init /\ hash_order = World.tables

ThreadSpec == ThreadInit /\ [][ThreadNext]_vars

(***************************************************************************)
(* Properties                                                              *)
(***************************************************************************)
\* the caller holds what the method `op` returned
Returned(op) == pc = "returned" /\ call.op = op

\* parse returned a ParsedQuery (it raised no ValueError)
ParsedOk == pc = "parsed" /\ result.ok

\* build_sql returned SQL (it raised no ValueError)
BuiltOk == pc = "built" /\ result.ok

\* every (table, column) pair of the schema
RealPairs ==
    UNION {{ColInfo(schema_cache[i].k, schema_cache[i].v.columns[j].name) :
                j \in 1..Len(schema_cache[i].v.columns)} :
           i \in 1..Len(schema_cache)}

\* the pairs whose dotted form table.column is the token
DottedPairs(token) == {p \in RealPairs : token = p.table \o c_dot \o p.column}

\* how many elements of a set of numbers are at most i
Rank(S, i) == Cardinality({j \in S : j <= i})

\* a finite set of numbers as an ascending sequence
SortedSeq(S) == [k \in 1..Cardinality(S) |-> CHOOSE i \in S : Rank(S, i) = k]

\* the 1-based indices at which sub occurs in s
Occurrences(sub, s) == {i \in 1..Len(s) : MatchAt(sub, s, i)}

\* the double-quoted segments of a text: where each opens and what it holds
QuotedSegments(s) ==
    LET quotes == Occurrences(q_dq, s)
        opening == {i \in quotes : Rank(quotes, i) % 2 = 1}
        closing(i) == Min({j \in quotes : j > i} \cup {Len(s) + 1})
    IN  {[at |-> i, text |-> SubSeq(s, i + 1, closing(i) - 1)] : i \in opening}

\* the pieces of a text that lie outside its double-quoted segments
UnquotedPieces(s) ==
    LET quotes == Occurrences(q_dq, s)
        closers == {0} \cup {i \in quotes : Rank(quotes, i) % 2 = 0}
        opening == {i \in quotes : Rank(quotes, i) % 2 = 1}
        next(i) == Min({j \in opening : j > i} \cup {Len(s) + 1})
    IN  {SubSeq(s, i + 1, next(i) - 1) : i \in closers}

\* the SQL text up to its LIMIT line
SqlBody(sql) == Before(sql, Find(q_nl \o q_LIMIT_, sql))

\* the conditions typed in a query text, as parse cuts them, the empty ones dropped
Conditions(query_text) ==
    LET part == ParseFormat(query_text).rest.conditions_part
        conds == IF part = <<>> THEN <<>> ELSE SplitConditions(part)
        keep == SelectIdx(Len(conds), {i \in 1..Len(conds) : Strip(conds[i]) # <<>>})
    IN  [k \in 1..Len(keep) |-> Strip(conds[keep[k]])]

\* whether a condition is of the form `column is [not] null`
IsNullTest(cond) == Contains(k__is_null, Lower(cond)) \/ Contains(k__is_not_null, Lower(cond))

\* the operator of a condition, the empty text when it has none
ConditionOp(cond) ==
    LET present == {i \in 1..Len(condition_ops) : Contains(condition_ops[i], cond)}
    IN  IF present = {} THEN <<>> ELSE condition_ops[Min(present)]

\* the column token typed in a condition
ColumnToken(cond) ==
    IF Contains(k__is_not_null, Lower(cond))
    THEN Strip(Before(cond, Find(k__is_not_null, Lower(cond))))
    ELSE IF Contains(k__is_null, Lower(cond))
    THEN Strip(Before(cond, Find(k__is_null, Lower(cond))))
    ELSE IF ConditionOp(cond) # <<>> THEN Strip(Split1(cond, ConditionOp(cond))[1])
    ELSE SplitWs1(cond)[1]

\* the value text typed in a condition, the empty text when it has none
ValueText(cond) ==
    IF IsNullTest(cond) THEN <<>>
    ELSE IF ConditionOp(cond) # <<>> THEN Strip(Split1(cond, ConditionOp(cond))[2])
    ELSE IF Len(SplitWs1(cond)) = 2 THEN SplitWs1(cond)[2]
    ELSE <<>>

\* the values typed in the conditions of a query text, as typed and lower-cased
TypedValues(query_text) ==
    LET conds == Conditions(query_text)
        texts == {StripQuotes(ValueText(conds[i])) : i \in 1..Len(conds)}
        alts == UNION {Range(ReSplit(t, <<>>, {"/", "|"})) : t \in texts}
        ends == UNION {Range(Split(a, k_dotdot)) : a \in alts}
    IN  ({Strip(e) : e \in ends} \cup {Lower(Strip(e)) : e \in ends}) \ {<<>>}

\* a text parameter of the form %...%
Wrapped(v) == v.py = "str" /\ Len(v.s) >= 2 /\ v.s[1] = "%" /\ v.s[Len(v.s)] = "%"

\* the text of a text parameter, without the % wrapping
Bare(v) == IF Wrapped(v) THEN SubSeq(v.s, 2, Len(v.s) - 1) ELSE v.s

\* whether a condition names a status keyword (its value then goes through
\* the status mapping, not through a column lookup)
IsStatusCondition(cond) ==
    \E i \in 1..Len(config.status_keywords) :
        Contains(config.status_keywords[i], Lower(ColumnToken(cond)))

\* the tables a foreign key joins to a set of tables, in either direction
Neighbours(S) ==
    LET from == {i \in 1..Len(relations_cache) : relations_cache[i].k \in S}
        to == {i \in 1..Len(relations_cache) :
                  \E rel \in Range(relations_cache[i].v) : rel.to_table \in S}
    IN  S \cup UNION {{rel.to_table : rel \in Range(relations_cache[i].v)} : i \in from}
          \cup {relations_cache[i].k : i \in to}

RECURSIVE Closure(_, _)
Closure(S, n) == IF n = 0 THEN S ELSE Closure(Neighbours(S), n - 1)

\* the tables some chain of foreign keys joins to base_table
Joinable(base_table) == Closure({base_table}, Len(schema_cache))

\* the tables of a ParsedQuery's select columns and conditions
TablesNeeded(parsed) ==
    {parsed.select_columns[i].table : i \in 1..Len(parsed.select_columns)}
        \cup parsed.where_tables

\* the tables of a path of find_join_path, in order
PathTables(path) == [i \in 1..Len(path) |-> path[i].table]

Distinct(s) == \A i \in 1..Len(s) : \A j \in 1..Len(s) : i # j => s[i] # s[j]

(***************************************************************************)
(* C1                                                                      *)
(***************************************************************************)
\* C1: for every schema and every alias configuration, and for every table T
\* with column C, find_column('T.C') returns exactly {table: T, column: C}.
C1_DottedNameResolvesToItsPair ==
    (Returned("find_column") /\ call.table = <<>>)
        => \A p \in DottedPairs(call.col_part) : result.val = Some(p)

\* find_column was called with the dotted name of a real column
C1_DottedNameLookedUp ==
    Returned("find_column") /\ call.table = <<>> /\ DottedPairs(call.col_part) # {}

(***************************************************************************)
(* C2                                                                      *)
(***************************************************************************)
\* C2: for every configured alias a mapped to {T, C}, find_column(a,
\* prefer_table) and find_column_for_base(a, base) return exactly {T, C}, for
\* every preferred or base table.
C2_AliasResolvesToItsPair ==
    (/\ pc = "returned"
     /\ call.op \in {"find_column", "find_column_for_base"}
     /\ OdHas(config.custom_mappings, call.col_part))
        => result.val = Some(OdGet(config.custom_mappings, call.col_part))

\* a configured alias was looked up
C2_AliasLookedUp ==
    /\ pc = "returned"
    /\ call.op \in {"find_column", "find_column_for_base"}
    /\ OdHas(config.custom_mappings, call.col_part)

(***************************************************************************)
(* C3                                                                      *)
(***************************************************************************)
\* whether the placeholder at index i of the SQL text is the operand of ILIKE
IsIlikeAt(sql, i) == MatchAt(q_ilike_ph, sql, i + 2 - Len(q_ilike_ph))

\* whether the placeholder at index i of the SQL text is cast to a date
IsDateAt(sql, i) == MatchAt(<<":", ":", "d", "a", "t", "e">>, sql, i + 2)

\* C3: the SQL returned by build_sql holds exactly one placeholder per entry
\* of the returned params, in the same order (an ILIKE operand is a %-wrapped
\* text, a date operand a plain text), and no value typed in a condition, no
\* parameter value and no default-filter value stands in the SQL text outside
\* its quoted identifiers.
C3_ValuesOnlyAsBoundParameters ==
    BuiltOk =>
        LET sql == result.sql
            params == result.params
            at == SortedSeq(Occurrences(q_ph, sql))
            pieces == UnquotedPieces(SqlBody(sql))
            texts == {Bare(params[i]) : i \in {j \in 1..Len(params) : params[j].py = "str"}}
            values == (TypedValues(call.query_text) \cup texts \cup {q_True, q_False}) \ {<<>>}
        IN  /\ Len(at) = Len(params)
            /\ \A i \in 1..Len(at) :
                  /\ IsIlikeAt(sql, at[i]) <=> Wrapped(params[i])
                  /\ IsDateAt(sql, at[i]) => (params[i].py = "str" /\ ~Wrapped(params[i]))
            /\ \A v \in values : \A piece \in pieces : ~Contains(v, piece)

\* SQL was built for typed text values and a default filter: at least three
\* parameters, a %-wrapped one and a boolean one among them
C3_MixedParametersBuilt ==
    /\ BuiltOk
    /\ Len(result.params) >= 3
    /\ \E i \in 1..Len(result.params) : Wrapped(result.params[i])
    /\ \E i \in 1..Len(result.params) : result.params[i].py = "bool"
    /\ result.applied_default_filters # <<>>

(***************************************************************************)
(* C4                                                                      *)
(***************************************************************************)
\* C4: when a select or where column belongs to a table that no join path
\* links to the base table, build_sql fails; it never returns SQL that
\* references a table other than the base table without a join to it.
C4_UnjoinableTableFails ==
    pc = "built" =>
        LET parsed == call.parsed
            others == TablesNeeded(parsed) \ {parsed.base_table}
        IN  /\ (others \ Joinable(parsed.base_table) # {}) => ~result.ok
            /\ result.ok =>
                 \A t \in others :
                    Contains(q_LEFT_JOIN_ \o q_dq \o t \o q_dq \o q__ON_, result.sql)

\* build_sql was called for a query whose columns lie in a table that no
\* foreign key links to the base table
C4_UnjoinableTableAsked ==
    /\ pc = "built"
    /\ TablesNeeded(call.parsed) \ Joinable(call.parsed.base_table) # {}

(***************************************************************************)
(* C5                                                                      *)
(***************************************************************************)
\* the conditions of a query text whose column token resolves to no column
UnresolvedConditions(query_text) ==
    LET conds == Conditions(query_text)
    IN  {i \in 1..Len(conds) :
            /\ ~IsStatusCondition(conds[i])
            /\ find_column(Self, EmptyDict, ColumnToken(conds[i]), <<>>).val = None}

\* C5: every non-empty where condition whose column token resolves to no
\* column makes parse fail with an error naming that token; parse never
\* returns a ParsedQuery from which a typed condition is missing.
C5_UnresolvedConditionFails ==
    pc = "parsed" =>
        LET conds == Conditions(call.query_text)
            bad == UnresolvedConditions(call.query_text)
        IN  /\ (ParseFormat(call.query_text).format # 0 /\ bad # {})
                  => (~result.ok /\ \E i \in bad : result.errtok = ColumnToken(conds[i]))
            /\ result.ok => Len(result.where_parts) = Len(conds)

\* parse was called on a query text with a condition on a column that
\* resolves to nothing, its select list being resolvable
C5_UnresolvedConditionParsed ==
    /\ pc = "parsed"
    /\ UnresolvedConditions(call.query_text) # {}
    /\ result.err \notin {"format", "primary_not_found", "ambiguous", "not_found",
                          "no_columns"}

(***************************************************************************)
(* C6                                                                      *)
(***************************************************************************)
\* whether the path find_join_path returned is the configured preferred path
IsPreferredPath ==
    LET key == <<call.base_table, call.target_table>>
    IN  /\ DictHas(config.preferred_paths, key)
        /\ PathTables(result.path) = Append(config.preferred_paths[key], call.target_table)

\* C6 as stated: the path returned by find_join_path, whether taken from a
\* configured preferred path or found by the automatic search, lists
\* pairwise-distinct tables, none of which is the base table.
C6_ReturnedPathDistinct ==
    (Returned("find_join_path") /\ result.found)
        => /\ Distinct(PathTables(result.path))
           /\ call.base_table \notin Range(PathTables(result.path))

\* a path found by the automatic search lists pairwise-distinct tables, none
\* of which is the base table, and ends at the target
AutomaticPathDistinct ==
    (Returned("find_join_path") /\ result.found /\ ~IsPreferredPath
       /\ call.base_table # call.target_table)
        => /\ Distinct(PathTables(result.path))
           /\ call.base_table \notin Range(PathTables(result.path))
           /\ result.path[Len(result.path)].table = call.target_table

\* while the search runs, every table is pushed at most once and never the
\* base table: the pushes are bounded by the tables of the graph
SearchBounded ==
    pc = "searching" =>
        /\ search.counter <= Cardinality(search.visited \ {search.base})
        /\ \A e \in search.heap :
              /\ Distinct(PathTables(e.path))
              /\ search.base \notin Range(PathTables(e.path))
              /\ Range(PathTables(e.path)) \subseteq search.visited

\* C6, amended: the join path search terminates on every foreign-key graph,
\* cycles and self references included, and a path found by the automatic
\* search lists pairwise-distinct tables, none of which is the base table (a
\* configured preferred path is returned as configured).
C6_SearchTerminatesAutomaticPathDistinct ==
    /\ []AutomaticPathDistinct
    /\ []SearchBounded
    /\ (pc = "searching" ~> pc = "returned")

\* the automatic search returned a path of two hops or more through a graph
\* with a cycle
C6_AutomaticPathFound ==
    /\ Returned("find_join_path")
    /\ result.found
    /\ ~IsPreferredPath
    /\ Len(result.path) >= 2
    /\ \E i \in 1..Len(relations_cache) :
          \E j \in 1..Len(relations_cache[i].v) :
              relations_cache[i].v[j].to_table = relations_cache[i].k

(***************************************************************************)
(* C7                                                                      *)
(***************************************************************************)
\* what a freshly constructed instance with the same schema and configuration
\* returns for a query text: the ParsedQuery or the error of parse
FreshParse(query_text) == parse(QueryParser(World), EmptyDict, query_text)

\* and the result of its build_sql
FreshBuild(query_text, limit, apply_default_filters) ==
    LET p == FreshParse(query_text)
    IN  build_sql(QueryParser(World), p.cache, p, limit, apply_default_filters, hash_order)

\* C7: after any sequence of earlier calls on the instance (which may fill
\* the fuzzy cache, up to its size cap), parse(q) followed by build_sql
\* returns the same SQL text and the same parameter list as a freshly
\* constructed instance with the same schema and configuration (and fails
\* where that one fails).
C7_SameAsFreshInstance ==
    /\ pc = "parsed" =>
          LET f == FreshParse(call.query_text)
          IN  /\ result.ok = f.ok
              /\ result.err = f.err
              /\ result.errtok = f.errtok
    /\ pc = "built" =>
          LET f == FreshBuild(call.query_text, call.limit, call.apply_default_filters)
          IN  /\ result.ok = f.ok
              /\ result.sql = f.sql
              /\ result.params = f.params

\* SQL was built on an instance whose fuzzy cache is full of the terms of
\* earlier calls, one of which is a term of no part of this query
C7_BuiltOnFilledCache ==
    /\ BuiltOk
    /\ Cardinality(DOMAIN fuzzy_cache) >= FuzzyCacheMax
    /\ \E term \in DOMAIN fuzzy_cache : ~Contains(term, Lower(call.query_text))
    /\ \E term \in DOMAIN fuzzy_cache : Contains(term, Lower(call.query_text))

(***************************************************************************)
(* C8                                                                      *)
(***************************************************************************)
\* the table and column identifiers in a SQL text: its double-quoted
\* segments, but for the column aliases that follow AS
SqlIdentifiers(sql) ==
    {seg.text : seg \in {g \in QuotedSegments(sql) :
                            ~MatchAt(q__AS_, sql, g.at - Len(q__AS_))}}

\* C8: every table and column identifier that build_sql interpolates into the
\* SQL text matches [A-Za-z_][A-Za-z0-9_]*, or build_sql fails; no SQL that
\* contains another identifier is returned.
C8_IdentifiersValid ==
    BuiltOk => \A name \in SqlIdentifiers(result.sql) : ValidIdentifier(name)

\* build_sql was called for a condition on a column whose name is no identifier
C8_InvalidIdentifierAsked ==
    /\ pc = "built"
    /\ \E i \in 1..Len(call.parsed.where_parts) :
          \E name \in SqlIdentifiers(call.parsed.where_parts[i]) : ~ValidIdentifier(name)

(***************************************************************************)
(* C9                                                                      *)
(***************************************************************************)
\* C9: in all three syntaxes the base table of the ParsedQuery is
\* the table of the primary column: the explicitly named column of the forms
\* `primary ... show` and `col: ...`, the first listed column of the form `show`.
C9_BaseTableIsPrimaryTable ==
    ParsedOk => result.base_table = result.select_columns[1].table

\* a query of the form `show` was parsed whose first listed column is not in
\* the table job while a later one is
C9_LaterColumnInPriorityTable ==
    /\ ParsedOk
    /\ ParseFormat(call.query_text).format = 3
    /\ result.select_columns[1].table # s_job
    /\ \E i \in 2..Len(result.select_columns) : result.select_columns[i].table = s_job

(***************************************************************************)
(* C10                                                                     *)
(***************************************************************************)
\* the scenario's query was translated on its schema, relation, alias and
\* status mapping (schema_has_flag: whether job also has the boolean column
\* is_completed)
ScenarioCall(schema_has_flag) ==
    /\ World = (IF schema_has_flag THEN WorldB ELSE WorldA)
    /\ pc \in {"parsed", "built"}
    /\ call.query_text = Q1

\* what the scenario expects of the SQL and the parameters
ScenarioResult ==
    /\ result.ok
    /\ pc = "built" =>
          /\ Cardinality(Occurrences(q_LEFT_JOIN_, result.sql)) = 1
          /\ Contains(q_nl \o <<"L", "E", "F", "T", " ", "J", "O", "I", "N", " ", "\"", "c", "o", "m", "p", "a", "n", "y", "\"", " ", "O", "N", " ", "\"", "j", "o", "b", "\"", ".", "\"", "c", "o", "m", "p", "a", "n", "y", "_", "i", "d", "\"", " ", "=", " ", "\"", "c", "o", "m", "p", "a", "n", "y", "\"", ".", "\"", "i", "d", "\"">> \o q_nl,
                      result.sql)
          /\ Contains(q_nl \o <<"W", "H", "E", "R", "E", " ", "\"", "j", "o", "b", "\"", ".", "\"", "i", "s", "_", "c", "o", "m", "p", "l", "e", "t", "e", "d", "\"", " ", "=", " ", "%", "s">> \o q_nl, result.sql)
          /\ result.params = <<PyBool(TRUE)>>
          /\ result.sql = <<"S", "E", "L", "E", "C", "T", " ", "\"", "j", "o", "b", "\"", ".", "\"", "j", "o", "b", "_", "n", "u", "m", "b", "e", "r", "\"", " ", "A", "S", " ", "\"", "j", "o", "b", " ", "n", "u", "m", "b", "e", "r", "\"", ",", " ", "\"", "c", "o", "m", "p", "a", "n", "y", "\"", ".", "\"", "n", "a", "m", "e", "\"", " ", "A", "S", " ", "\"", "c", "o", "m", "p", "a", "n", "y", " ", "n", "a", "m", "e", "\"", "\n", "F", "R", "O", "M", " ", "\"", "j", "o", "b", "\"", "\n", "L", "E", "F", "T", " ", "J", "O", "I", "N", " ", "\"", "c", "o", "m", "p", "a", "n", "y", "\"", " ", "O", "N", " ", "\"", "j", "o", "b", "\"", ".", "\"", "c", "o", "m", "p", "a", "n", "y", "_", "i", "d", "\"", " ", "=", " ", "\"", "c", "o", "m", "p", "a", "n", "y", "\"", ".", "\"", "i", "d", "\"", "\n", "W", "H", "E", "R", "E", " ", "\"", "j", "o", "b", "\"", ".", "\"", "i", "s", "_", "c", "o", "m", "p", "l", "e", "t", "e", "d", "\"", " ", "=", " ", "%", "s", "\n", "L", "I", "M", "I", "T", " ">> \o IntStr(call.limit)

\* C10 as stated: on the schema job(id, job_number, company_id), company(id,
\* name), the foreign key job.company_id -> company.id, the alias
\* company_name -> company.name and the status map completed ->
\* (is_completed, true), `show job_number, company_name where
\* status=completed` yields exactly one LEFT JOIN of company ON
\* job.company_id = company.id, the WHERE "job"."is_completed" = <placeholder>
\* and the params [true].
C10_ScenarioAsStated == ScenarioCall(FALSE) => ScenarioResult

\* C10, amended: the same holds when job also has the boolean column
\* is_completed that the status map names.
C10_ScenarioWithStatusColumn == ScenarioCall(TRUE) => ScenarioResult

\* the scenario's query was built on the schema with job.is_completed
C10_ScenarioBuilt == ScenarioCall(TRUE) /\ pc = "built" /\ call.limit = DefaultLimit

(***************************************************************************)
(* C11                                                                     *)
(***************************************************************************)
\* the date-range scenario's query was translated on a schema whose table job
\* has a column created
DateRangeCall ==
    /\ pc \in {"parsed", "built"}
    /\ call.query_text = Q8
    /\ ColInfo(s_job, s_created) \in RealPairs

\* C11: for a table job with a column created, `show job_number where
\* created=2025-01-01..2025-12-31 order by created desc` yields the WHERE
\* fragment "job"."created"::date BETWEEN %s::date AND %s::date with the
\* params 2025-01-01 and 2025-12-31 in that order, and ORDER BY
\* "job"."created" DESC.
C11_DateRangeScenario ==
    DateRangeCall =>
        /\ result.ok
        /\ parsed_query.where_parts = <<<<"\"", "j", "o", "b", "\"", ".", "\"", "c", "r", "e", "a", "t", "e", "d", "\"", ":", ":", "d", "a", "t", "e", " ", "B", "E", "T", "W", "E", "E", "N", " ", "%", "s", ":", ":", "d", "a", "t", "e", " ", "A", "N", "D", " ", "%", "s", ":", ":", "d", "a", "t", "e">>>>
        /\ parsed_query.params = <<PyStr(<<"2", "0", "2", "5", "-", "0", "1", "-", "0", "1">>), PyStr(<<"2", "0", "2", "5", "-", "1", "2", "-", "3", "1">>)>>
        /\ pc = "built" =>
              /\ Contains(q_nl \o <<"W", "H", "E", "R", "E", " ", "\"", "j", "o", "b", "\"", ".", "\"", "c", "r", "e", "a", "t", "e", "d", "\"", ":", ":", "d", "a", "t", "e", " ", "B", "E", "T", "W", "E", "E", "N", " ", "%", "s", ":", ":", "d", "a", "t", "e", " ", "A", "N", "D", " ", "%", "s", ":", ":", "d", "a", "t", "e">>,
                          result.sql)
              /\ SubSeq(result.params, 1, 2) = <<PyStr(<<"2", "0", "2", "5", "-", "0", "1", "-", "0", "1">>), PyStr(<<"2", "0", "2", "5", "-", "1", "2", "-", "3", "1">>)>>
              /\ Contains(q_nl \o <<"O", "R", "D", "E", "R", " ", "B", "Y", " ", "\"", "j", "o", "b", "\"", ".", "\"", "c", "r", "e", "a", "t", "e", "d", "\"", " ", "D", "E", "S", "C">> \o q_nl \o q_LIMIT_,
                          result.sql)

\* SQL was built for the date-range scenario's query
C11_DateRangeBuilt == DateRangeCall /\ pc = "built" /\ call.apply_default_filters

(***************************************************************************)
(* C12                                                                     *)
(***************************************************************************)
\* SQL was built, with the limit argument left at its default as cli.py:149
\* leaves it, for the query `show job_number order by job_number desc limit 5`
C12_TrailingLimitBuilt ==
    /\ pc = "built"
    /\ call.query_text = Q15
    /\ call.limit = DefaultLimit
    /\ ColInfo(s_job, s_job_number) \in RealPairs

\* C12: a query text ending in `order by <col> desc limit <n>` produces SQL
\* with ORDER BY <col> DESC and LIMIT n; the trailing limit changes neither
\* the order direction nor any where condition.
C12_TrailingLimitSetsRowCap ==
    C12_TrailingLimitBuilt =>
        /\ result.ok
        /\ parsed_query.where_parts = <<>>
        /\ Contains(q_nl \o <<"O", "R", "D", "E", "R", " ", "B", "Y", " ", "\"", "j", "o", "b", "\"", ".", "\"", "j", "o", "b", "_", "n", "u", "m", "b", "e", "r", "\"", " ", "D", "E", "S", "C">> \o q_nl \o <<"L", "I", "M", "I", "T", " ", "5">>,
                    result.sql)
        /\ ~Contains(<<"L", "I", "M", "I", "T", " ", "1", "0", "0", "0">>, result.sql)

(***************************************************************************)
(* C13                                                                     *)
(***************************************************************************)
\* how many parentheses are open before position i of a text
RECURSIVE ParenDepth(_, _)
ParenDepth(s, i) ==
    IF i <= 1 THEN 0
    ELSE IF s[i - 1] = "(" THEN ParenDepth(s, i - 1) + 1
    ELSE IF s[i - 1] = ")" /\ ParenDepth(s, i - 1) > 0 THEN ParenDepth(s, i - 1) - 1
    ELSE ParenDepth(s, i - 1)

\* the separators of a where clause from position i on: the commas and the
\* words `and` that stand outside every pair of parentheses
RECURSIVE TopLevelSeparators(_, _, _)
TopLevelSeparators(s, i, depth) ==
    IF i > Len(s) THEN 0
    ELSE IF s[i] = "(" THEN TopLevelSeparators(s, i + 1, depth + 1)
    ELSE IF s[i] = ")" THEN TopLevelSeparators(s, i + 1, IF depth > 0 THEN depth - 1 ELSE 0)
    ELSE IF depth > 0 THEN TopLevelSeparators(s, i + 1, depth)
    ELSE IF WordSepEnd(s, i, k_and) > 0
    THEN 1 + TopLevelSeparators(s, WordSepEnd(s, i, k_and), 0)
    ELSE IF s[i] = "," THEN 1 + TopLevelSeparators(s, i + 1, 0)
    ELSE TopLevelSeparators(s, i + 1, 0)

\* the where clause of the query text parse was called with
WhereClause == ParseFormat(call.query_text).rest.conditions_part

\* C13: the where clause is split into conditions only at top-level commas
\* and at the word `and`; a comma inside parentheses never starts a new
\* condition, so the conditions processed are as many as the top-level
\* separators plus one.
C13_SplitAtTopLevelOnly ==
    (pc = "parsed" /\ WhereClause # <<>>) =>
        Len(SplitConditions(WhereClause)) = TopLevelSeparators(WhereClause, 1, 0) + 1

\* parse returned for a where clause with a comma inside parentheses
C13_CommaInParenthesesParsed ==
    /\ pc = "parsed"
    /\ result.ok
    /\ \E i \in 1..Len(WhereClause) : WhereClause[i] = "," /\ ParenDepth(WhereClause, i) > 0

(***************************************************************************)
(* C14                                                                     *)
(***************************************************************************)
\* the one condition of the query text parse was called with
OneCondition == Conditions(call.query_text)[1]

\* the text-typed columns of the schema
TextColumns == {p \in RealPairs : _get_column_type(Self, p.table, p.column) \in text_types}

\* parse returned a query whose one condition, with one value, became one
\* where fragment on the text-typed column p
TextConditionOn(p) ==
    /\ pc = "parsed"
    /\ result.ok
    /\ Len(Conditions(call.query_text)) = 1
    /\ ~IsNullTest(OneCondition)
    /\ ~IsStatusCondition(OneCondition)
    /\ Len(ConditionValues(StripQuotes(ValueText(OneCondition)))) = 1
    /\ Len(parsed_query.where_parts) = 1
    /\ StartsWith(parsed_query.where_parts[1], ColRef(p.table, p.column) \o c_sp)

\* C14: on a text-typed column the partial match (ILIKE with the parameter
\* %value%) is used only when the condition carries no explicit operator; a
\* condition written with an explicit comparison operator is emitted with
\* that operator.
C14_ExplicitOperatorKept ==
    \A p \in TextColumns :
        TextConditionOn(p) =>
            IF ConditionOp(OneCondition) = <<>>
            THEN /\ parsed_query.where_parts[1] = ColRef(p.table, p.column) \o q_ilike_ph
                 /\ Wrapped(parsed_query.params[1])
            ELSE /\ parsed_query.where_parts[1]
                      = ColRef(p.table, p.column) \o c_sp \o ConditionOp(OneCondition)
                          \o c_sp \o q_ph
                 /\ ~Wrapped(parsed_query.params[1])

\* parse returned for a condition with an explicit operator other than = on a
\* text-typed column
C14_OperatorOnTextColumnParsed ==
    \E p \in TextColumns :
        /\ TextConditionOn(p)
        /\ ConditionOp(OneCondition) \notin {<<>>, o_eq}

(***************************************************************************)
(* C15                                                                     *)
(***************************************************************************)
\* the values listed in the one condition of the query text
ListedValues == ConditionValues(StripQuotes(ValueText(OneCondition)))

\* parse was called with a query text whose one condition is a status shortcut
StatusShortcutCall ==
    /\ pc = "parsed"
    /\ Len(Conditions(call.query_text)) = 1
    /\ ~IsNullTest(OneCondition)
    /\ IsStatusCondition(OneCondition)

\* C15: for a status shortcut listing n values, parse either fails with an
\* unknown-status error or emits exactly n equality tests on boolean columns,
\* OR-ed together, with n bound boolean parameters: no listed value is
\* silently dropped.
C15_EveryStatusValueTested ==
    StatusShortcutCall =>
        \/ ~result.ok /\ result.err = "unknown_status"
        \/ /\ result.ok
           /\ Len(parsed_query.where_parts) = 1
           /\ Cardinality(Occurrences(q_eq_ph, parsed_query.where_parts[1])) = Len(ListedValues)
           /\ Cardinality(Occurrences(q_or, parsed_query.where_parts[1])) = Len(ListedValues) - 1
           /\ Len(parsed_query.params) = Len(ListedValues)
           /\ \A i \in 1..Len(parsed_query.params) : parsed_query.params[i].py = "bool"

\* parse returned a query for a status shortcut that lists several values
C15_SeveralStatusValuesParsed ==
    StatusShortcutCall /\ result.ok /\ Len(ListedValues) > 1

(***************************************************************************)
(* C16                                                                     *)
(***************************************************************************)
\* the tables the SQL text joins
JoinedTables(sql) ==
    {schema_cache[i].k : i \in {j \in 1..Len(schema_cache) :
        Contains(<<"J", "O", "I", "N", " ", "\"">> \o schema_cache[j].k \o <<"\"", " ", "O", "N", " ">>, sql)}}

\* the configured default filters: each with its table
ConfiguredFilters ==
    UNION {{[table |-> t, flt |-> config.default_filters[t][j]] :
                j \in 1..Len(config.default_filters[t])} :
           t \in DOMAIN config.default_filters}

FilterOp(flt) == IF flt.op = None THEN o_eq ELSE flt.op[1]

\* the description build_sql reports of an applied default filter
FilterDescription(f) == f.table \o c_dot \o f.flt.column \o FilterOp(f.flt) \o PyToStr(f.flt.value)

\* whether a default filter is due: its table is the base table or a table
\* the SQL joins, and no where fragment of the user names its column
FilterDue(f) ==
    /\ f.table = parsed_query.base_table \/ f.table \in JoinedTables(result.sql)
    /\ \A i \in 1..Len(parsed_query.where_parts) :
           ~Contains(ColRef(f.table, f.flt.column), parsed_query.where_parts[i])

\* build_sql returned SQL with the default filters enabled
DefaultFiltersBuilt == BuiltOk /\ call.apply_default_filters

\* C16: with default filters enabled, a configured default filter on
\* (table, column) is added to WHERE, its value bound as a parameter and its
\* description in the applied-filters list, exactly when the table is the
\* base table or a table joined in the emitted SQL and no user-supplied WHERE
\* fragment references "table"."column"; each such filter is added at most
\* once.
C16_DefaultFilterOnEveryJoinedTable ==
    DefaultFiltersBuilt =>
        \A f \in ConfiguredFilters :
            /\ FilterDue(f) <=> FilterDescription(f) \in Range(result.applied_default_filters)
            /\ FilterDue(f) <=>
                   Contains(ColRef(f.table, f.flt.column) \o c_sp \o FilterOp(f.flt) \o c_sp \o q_ph,
                            result.sql)
            /\ FilterDue(f) => f.flt.value \in Range(result.params)
            /\ Cardinality({i \in 1..Len(result.applied_default_filters) :
                   result.applied_default_filters[i] = FilterDescription(f)}) <= 1

\* SQL was built, with default filters enabled, that joins a table with a
\* configured default filter which is neither the base table nor a table of
\* a select column or a condition
C16_FilteredTableJoinedOnTheWay ==
    /\ DefaultFiltersBuilt
    /\ \E f \in ConfiguredFilters :
           /\ FilterDue(f)
           /\ f.table \in JoinedTables(result.sql) \ TablesNeeded(parsed_query)

(***************************************************************************)
(* C17                                                                     *)
(***************************************************************************)
\* the select columns of the ParsedQuery that carry an aggregate
Aggregated ==
    {i \in 1..Len(parsed_query.select_columns) : parsed_query.select_columns[i].aggregate # <<>>}

\* the select columns that carry none, as column references in select order
Plain ==
    Pick([i \in 1..Len(parsed_query.select_columns) |->
              ColRef(parsed_query.select_columns[i].table, parsed_query.select_columns[i].column)],
         SelectIdx(Len(parsed_query.select_columns),
                   (1..Len(parsed_query.select_columns)) \ Aggregated))

\* C17: build_sql emits a GROUP BY clause exactly when at least one select
\* column carries an aggregate and at least one does not; the clause then
\* lists exactly the non-aggregate select columns in select order; with no
\* aggregate no GROUP BY is emitted.
C17_GroupByNonAggregateColumns ==
    BuiltOk =>
        /\ Contains(q_GROUP_BY_, result.sql) <=> (Aggregated # {} /\ Plain # <<>>)
        /\ Cardinality(Occurrences(q_GROUP_BY_, result.sql)) <= 1
        /\ (Aggregated # {} /\ Plain # <<>>) =>
               Contains(q_nl \o q_GROUP_BY_ \o Join(Plain, q_comma_sp) \o q_nl, result.sql)

\* SQL was built for a select list that mixes aggregate and plain columns
C17_MixedSelectBuilt == BuiltOk /\ Aggregated # {} /\ Plain # <<>>

(***************************************************************************)
(* C18                                                                     *)
(***************************************************************************)
\* a step in which build_sql returns
BuildSqlReturns == pc' = "built"

\* a step in which build_sql returns for the second time with the same
\* arguments
BuildSqlAgain ==
    /\ pc = "built"
    /\ pc' = "built"
    /\ call'.limit = call.limit
    /\ call'.apply_default_filters = call.apply_default_filters

CostCap == 10 * Len(schema_cache) + 1

EdgeCost(u, t) ==
    IF OdHas(get_related_tables(Self, u), t)
    THEN _score_relation(u, t, OdGet(get_related_tables(Self, u), t))
    ELSE CostCap

\* the accumulated cost of a path from base_table
RECURSIVE PathCost(_, _, _)
PathCost(base_table, path, i) ==
    IF i > Len(path) THEN 0
    ELSE _score_relation(IF i = 1 THEN base_table ELSE path[i - 1].table,
                         path[i].table, path[i].info)
         + PathCost(base_table, path, i + 1)

\* one round of relaxation of the least costs d over the tables nodes
Relax(d, nodes) ==
    [t \in nodes |->
        Min({d[t]} \cup {d[u] + EdgeCost(u, t) :
                            u \in {x \in nodes : d[x] < CostCap /\ EdgeCost(x, t) < CostCap}})]

RECURSIVE Relaxed(_, _, _)
Relaxed(d, nodes, n) == IF n = 0 THEN d ELSE Relaxed(Relax(d, nodes), nodes, n - 1)

\* the smallest accumulated cost of a path from base_table to target_table
MinCost(base_table, target_table) ==
    Relaxed([t \in Joinable(base_table) |-> IF t = base_table THEN 0 ELSE CostCap],
            Joinable(base_table), Cardinality(Joinable(base_table)))[target_table]

\* the automatic search returned a path to a target other than the base
AutomaticPathReturned ==
    /\ Returned("find_join_path")
    /\ result.found
    /\ call.base_table # call.target_table
    /\ ~DictHas(config.preferred_paths, <<call.base_table, call.target_table>>)

\* C19: for every base table and every target reachable from it with no
\* preferred path configured, the path the automatic search returns has the
\* smallest accumulated edge cost, as _score_relation gives it, among all
\* paths from base to target in the undirected foreign-key graph.
C19_ReturnedPathIsCheapest ==
    AutomaticPathReturned =>
        PathCost(call.base_table, result.path, 1) = MinCost(call.base_table, call.target_table)

\* the automatic search returned a path to a target that a direct key and a
\* detour through another table both reach
C19_TwoRoutesSearched ==
    /\ AutomaticPathReturned
    /\ EdgeCost(call.base_table, call.target_table) < CostCap
    /\ \E t \in Joinable(call.base_table) \ {call.base_table, call.target_table} :
           EdgeCost(call.base_table, t) < CostCap /\ EdgeCost(t, call.target_table) < CostCap

(***************************************************************************)
(* C20                                                                     *)
(***************************************************************************)
\* C20: find_join_path(base, target) returns None exactly when target differs
\* from base and no chain of foreign keys, followed in either direction,
\* leads from base to target; it returns the empty path exactly when target
\* equals base, and a non-empty path in every other case.
C20_NoneIffUnreachable ==
    Returned("find_join_path") =>
        /\ ~result.found <=> /\ call.target_table # call.base_table
                             /\ call.target_table \notin Joinable(call.base_table)
        /\ (result.found /\ result.path = <<>>) <=> call.target_table = call.base_table
        /\ (result.found /\ result.path # <<>>) <=>
               /\ call.target_table # call.base_table
               /\ call.target_table \in Joinable(call.base_table)

\* find_join_path returned None for a target no chain of foreign keys reaches
C20_UnreachableTargetAsked ==
    /\ Returned("find_join_path")
    /\ ~result.found
    /\ call.target_table \notin Joinable(call.base_table)
    /\ Cardinality(Joinable(call.base_table)) > 1

(***************************************************************************)
(* C21                                                                     *)
(***************************************************************************)
\* the preferred path configured for the pair find_join_path was called with
ConfiguredPath == config.preferred_paths[<<call.base_table, call.target_table>>]

\* find_join_path returned for a pair of different tables that has a
\* preferred path configured
PreferredPathCall ==
    /\ Returned("find_join_path")
    /\ call.base_table # call.target_table
    /\ DictHas(config.preferred_paths, <<call.base_table, call.target_table>>)

\* whether every consecutive pair of a chain of tables is directly related
HopsDirect(chain) ==
    \A i \in 1..(Len(chain) - 1) : OdHas(get_related_tables(Self, chain[i]), chain[i + 1])

\* what find_join_path returns on the same schema with no preferred path
\* configured
AutomaticSearch(base_table, target_table) ==
    find_join_path([Self EXCEPT !.config.preferred_paths = EmptyDict],
                   base_table, target_table)

\* C21: if a preferred path is configured for (base, target) and every
\* consecutive pair along base, intermediates, target is directly related,
\* find_join_path returns exactly those tables in the configured order,
\* ending with target; if a hop is not a direct relation it returns what the
\* automatic search returns for (base, target), and raises no error.
C21_PreferredPathVerbatimOrSearch ==
    PreferredPathCall =>
        IF HopsDirect(<<call.base_table>> \o ConfiguredPath \o <<call.target_table>>)
        THEN /\ result.found
             /\ PathTables(result.path) = Append(ConfiguredPath, call.target_table)
        ELSE result = AutomaticSearch(call.base_table, call.target_table)

\* find_join_path returned for a pair whose configured preferred path has
\* intermediate tables and only direct hops
C21_ValidPreferredPathAsked ==
    /\ PreferredPathCall
    /\ ConfiguredPath # <<>>
    /\ HopsDirect(<<call.base_table>> \o ConfiguredPath \o <<call.target_table>>)

\* find_join_path returned for a pair whose configured preferred path has a
\* hop that is no direct relation
InvalidPreferredPathAsked ==
    /\ PreferredPathCall
    /\ ~HopsDirect(<<call.base_table>> \o ConfiguredPath \o <<call.target_table>>)
    /\ result.found

(***************************************************************************)
(* C22                                                                     *)
(***************************************************************************)
\* how many LEFT JOIN clauses of the SQL text introduce a table
JoinsOf(table, sql) ==
    Cardinality(Occurrences(q_LEFT_JOIN_ \o q_dq \o table \o q_dq \o q__ON_, sql))

\* the tables of the schema
SchemaTables == {schema_cache[i].k : i \in 1..Len(schema_cache)}

\* the tables the SQL has to join for a needed table: the tables of its join
\* path, the base table apart
JoinsDueFor(table) ==
    Range(PathTables(find_join_path(Self, parsed_query.base_table, table).path))
        \ {parsed_query.base_table}

\* the needed tables some chain of foreign keys joins to the base table
NeededReachable ==
    (TablesNeeded(parsed_query) \cap Joinable(parsed_query.base_table))
        \ {parsed_query.base_table}

\* C22: for every table needed by the select list or the where clause that
\* is reachable from the base table, and for every intermediate table on its
\* join path, the SQL contains exactly one LEFT JOIN clause introducing that
\* table; the base table is never the subject of a LEFT JOIN and no table is
\* joined twice, whatever the order in which the needed tables are processed.
C22_OneJoinPerTable ==
    BuiltOk =>
        /\ \A t \in NeededReachable :
               /\ JoinsOf(t, result.sql) = 1
               /\ \A h \in JoinsDueFor(t) : JoinsOf(h, result.sql) = 1
        /\ JoinsOf(parsed_query.base_table, result.sql) = 0
        /\ \A t \in SchemaTables : JoinsOf(t, result.sql) <= 1

\* SQL was built for a query that needs a table two hops or more away from
\* the base table
C22_IntermediateTableJoined ==
    /\ BuiltOk
    /\ \E t \in NeededReachable : Cardinality(JoinsDueFor(t)) >= 2

(***************************************************************************)
(* C23                                                                     *)
(***************************************************************************)
\* the foreign keys of the schema: from_table.from_column references
\* to_table.to_column
ForeignKeys ==
    UNION {{[from_table |-> relations_cache[i].k,
             from_column |-> relations_cache[i].v[j].from_column,
             to_table |-> relations_cache[i].v[j].to_table,
             to_column |-> relations_cache[i].v[j].to_column] :
                j \in 1..Len(relations_cache[i].v)} :
           i \in 1..Len(relations_cache)}

\* whether a hop from the table prev is a foreign key between the two tables,
\* held by the side its join_type names
IsForeignKeyHop(prev, hop) ==
    IF hop.info.join_type = "outgoing"
    THEN [from_table |-> prev, from_column |-> hop.info.base_column,
          to_table |-> hop.table, to_column |-> hop.info.target_column] \in ForeignKeys
    ELSE /\ hop.info.join_type = "incoming"
         /\ [from_table |-> hop.table, from_column |-> hop.info.target_column,
             to_table |-> prev, to_column |-> hop.info.base_column] \in ForeignKeys

\* the LEFT JOIN lines that equate a foreign-key column with the column it
\* references
ForeignKeyJoins ==
    UNION {{q_LEFT_JOIN_ \o q_dq \o t \o q_dq \o q__ON_
                \o ColRef(fk.from_table, fk.from_column) \o q__eq_
                \o ColRef(fk.to_table, fk.to_column) : t \in {fk.from_table, fk.to_table}} :
           fk \in ForeignKeys}

\* C23: every hop (table, join_info) of a path returned by find_join_path is
\* a real foreign-key edge between the previous table on the path (the base
\* table for the first hop) and the hop's table, `outgoing` when the previous
\* table holds the key and `incoming` when the hop's table holds it, so the
\* ON clause built from it equates a foreign-key column with the column it
\* references.
C23_HopsAreForeignKeys ==
    /\ (Returned("find_join_path") /\ result.found) =>
           \A i \in 1..Len(result.path) :
               IsForeignKeyHop(IF i = 1 THEN call.base_table ELSE result.path[i - 1].table,
                               result.path[i])
    /\ BuiltOk =>
           \A line \in Range(Split(result.sql, q_nl)) :
               StartsWith(line, q_LEFT_JOIN_) => line \in ForeignKeyJoins

\* find_join_path returned a path of two hops or more with a hop along a
\* foreign key the hop's table holds
C23_IncomingHopReturned ==
    /\ Returned("find_join_path")
    /\ result.found
    /\ Len(result.path) >= 2
    /\ \E i \in 1..Len(result.path) : result.path[i].info.join_type = "incoming"

(***************************************************************************)
(* C24                                                                     *)
(***************************************************************************)
\* the table qualifiers of a piece of SQL: the quoted names that a dot and
\* another quoted name follow
Qualifiers(s) ==
    {seg.text : seg \in {g \in QuotedSegments(s) :
        MatchAt(q_dq_dot_dq, s, g.at + Len(g.text) + 1)}}

\* the LEFT JOIN lines of the SQL text, in order
JoinLines(sql) ==
    Pick(Split(sql, q_nl),
         SelectIdx(Len(Split(sql, q_nl)),
                   {i \in 1..Len(Split(sql, q_nl)) : StartsWith(Split(sql, q_nl)[i], q_LEFT_JOIN_)}))

\* the table a LEFT JOIN line introduces
JoinedBy(line) == Before(From(line, Len(q_LEFT_JOIN_) + 2), Find(q_dq, From(line, Len(q_LEFT_JOIN_) + 2)))

\* the tables the LEFT JOIN lines before the k-th introduce
IntroducedBefore(lines, k) == {JoinedBy(lines[i]) : i \in 1..(k - 1)}

\* C24: every table qualifier in the SQL build_sql returns (SELECT list, ON
\* clauses, WHERE fragments of the user and of the default filters, GROUP BY,
\* ORDER BY) is the base table or a table a LEFT JOIN clause of that SQL
\* introduces, and each ON clause refers only to the table it joins and to a
\* table introduced earlier in the statement.
C24_QualifiersAreIntroduced ==
    BuiltOk =>
        /\ Qualifiers(result.sql) \subseteq
               {parsed_query.base_table}
                   \cup IntroducedBefore(JoinLines(result.sql), Len(JoinLines(result.sql)) + 1)
        /\ \A k \in 1..Len(JoinLines(result.sql)) :
               Qualifiers(JoinLines(result.sql)[k]) \subseteq
                   {parsed_query.base_table, JoinedBy(JoinLines(result.sql)[k])}
                       \cup IntroducedBefore(JoinLines(result.sql), k)

\* SQL was built for a query that sorts by a column of a table which no
\* select column and no condition names
C24_SortedByOtherTable ==
    /\ BuiltOk
    /\ Contains(q_nl \o q_ORDER_BY_, result.sql)
    /\ Qualifiers(From(result.sql, Find(q_nl \o q_ORDER_BY_, result.sql)))
           \cap TablesNeeded(parsed_query) = {}
    /\ Qualifiers(From(result.sql, Find(q_nl \o q_ORDER_BY_, result.sql)))
           \subseteq Joinable(parsed_query.base_table) \ {parsed_query.base_table}

(***************************************************************************)
(* C25                                                                     *)
(***************************************************************************)
\* the words of the order-by clause of the query text: the token and what
\* follows it
OrderWords ==
    SplitWs(Strip(From(call.query_text,
                       Find(k__order_by_, Lower(call.query_text)) + Len(k__order_by_))))

\* the direction the order-by clause gives: DESC when desc follows the
\* token, ASC otherwise
OrderDirection ==
    IF Len(OrderWords) >= 2 /\ Lower(OrderWords[2]) = Lower(k_DESC) THEN k_DESC ELSE k_ASC

\* what the order-by token resolves to as a select-list entry of the query
AsSelectEntry ==
    find_column_for_base(Self, EmptyDict, parsed_query.order_by, parsed_query.base_table).val

\* SQL was built for a query text with an order-by clause
OrderedQueryBuilt ==
    /\ BuiltOk
    /\ Contains(k__order_by_, Lower(call.query_text))
    /\ parsed_query.order_by # <<>>

\* C25: the {table, column} build_sql uses for ORDER BY is the one the token
\* resolves to as a select-list entry of that query (the base table first,
\* then the tables reachable from it), and the direction is ASC unless the
\* order-by clause gives desc.
C25_OrderByResolvedAsSelectEntry ==
    OrderedQueryBuilt =>
        /\ Contains(q_nl \o q_ORDER_BY_, result.sql) => AsSelectEntry # None
        /\ AsSelectEntry # None =>
               Contains(q_nl \o q_ORDER_BY_
                            \o ColRef(AsSelectEntry[1].table, AsSelectEntry[1].column)
                            \o c_sp \o OrderDirection \o q_nl \o q_LIMIT_,
                        result.sql)

\* SQL was built for a query that selects a token and sorts by the same token
C25_SortedBySelectedToken ==
    /\ OrderedQueryBuilt
    /\ \E i \in 1..Len(parsed_query.select_columns) :
           /\ AsSelectEntry = Some(ColInfo(parsed_query.select_columns[i].table,
                                           parsed_query.select_columns[i].column))
           /\ Lower(parsed_query.order_by) # Lower(parsed_query.select_columns[i].column)

(***************************************************************************)
(* C26                                                                     *)
(***************************************************************************)
\* the token find_column was called with, as it looks it up
Token == Lower(Strip(call.col_part))

\* the candidates find_column gathers for the token, in candidate order
Candidates ==
    OrFuzzy(Self, EmptyDict, Token,
        OrMatchesOf(Self, Replace(Token, c_us, <<>>),
            OrMatches(Self, Token, Replace(Token, c_us, c_sp),
                      _get_matches(Self, Token)))).val

\* the composite score of the i-th candidate
CandidateScore(i) == BestMatchScore(Self, Candidates[i], Token, call.table)

\* find_column returned for a token that is no dotted name and has several
\* candidates
SeveralCandidates ==
    /\ Returned("find_column")
    /\ ~Contains(c_dot, Token)
    /\ Len(Candidates) >= 2

\* C26: when a token has several candidates, _select_best_match returns the
\* candidate with the highest composite score and, among candidates of equal
\* score, the one encountered first in candidate order; so the token resolves
\* to the same table on every call against the same schema snapshot and
\* configuration, whatever calls were made before.
C26_HighestScoreFirstEncountered ==
    SeveralCandidates =>
        /\ \E i \in 1..Len(Candidates) :
               /\ result.val = Some(Candidates[i])
               /\ \A j \in 1..Len(Candidates) : CandidateScore(j) <= CandidateScore(i)
               /\ \A j \in 1..(i - 1) : CandidateScore(j) < CandidateScore(i)
        /\ result.val = find_column(QueryParser(World), EmptyDict, call.col_part, call.table).val

\* find_column returned, with no preferred table and calls made before, for
\* a token whose two best candidates are in different tables and score the
\* same
C26_TiedCandidatesAsked ==
    /\ SeveralCandidates
    /\ call.table = <<>>
    /\ fuzzy_cache # EmptyDict
    /\ \E i \in 1..Len(Candidates) : \E j \in 1..Len(Candidates) :
           /\ i # j
           /\ Candidates[i].table # Candidates[j].table
           /\ CandidateScore(i) = CandidateScore(j)
           /\ \A k \in 1..Len(Candidates) : CandidateScore(k) <= CandidateScore(i)

(***************************************************************************)
(* C27                                                                     *)
(***************************************************************************)
\* the column names of a schema
ColumnNames(w) ==
    UNION {{w.schema_cache[i].v.columns[j].name : j \in 1..Len(w.schema_cache[i].v.columns)} :
           i \in 1..Len(w.schema_cache)}

\* the query texts tried on a schema: its queries, and `show <token>` for
\* each of its tokens and of its column names
QueriesTried(w) == w.queries \cup {k_show_ \o tok : tok \in w.tokens \cup ColumnNames(w)}

\* C27: the ambiguous-column failure is reachable: there is a schema, a
\* configuration and a query for which parse fails with the error that lists
\* the candidate tables of an ambiguous select column, instead of returning
\* a ParsedQuery or a column-not-found error (on the instance in hand with
\* its fuzzy cache as it is, on the others with a fresh one).
C27_AmbiguousErrorReachable ==
    \E w \in Worlds : \E q \in QueriesTried(w) :
        parse(QueryParser(w), IF w = World THEN fuzzy_cache ELSE EmptyDict, q).err
            = "ambiguous"

\* the entries of the select list of the query text, without their
\* aggregate tags
SelectTokens ==
    {Strip(IF Contains(c_colon, tok) THEN Split1(tok, c_colon)[2] ELSE tok) :
        tok \in Range(Split(ParseFormat(call.query_text).rest.columns_part, c_comma))}

\* the tables of the candidates find_all_columns lists for a token
CandidateTables(tok) ==
    {find_all_columns(Self, EmptyDict, tok).val[i].table :
        i \in 1..Len(find_all_columns(Self, EmptyDict, tok).val)}

\* parse returned a ParsedQuery for a select list with an entry that has
\* candidates in tables no chain of foreign keys connects
C27_AmbiguousEntryResolved ==
    /\ ParsedOk
    /\ \E tok \in SelectTokens :
           \E t \in CandidateTables(tok) : \E u \in CandidateTables(tok) : u \notin Joinable(t)

(***************************************************************************)
(* C28                                                                     *)
(***************************************************************************)
\* the configured aliases, as the keys the column map stores them under
AliasKeys == {Lower(config.custom_mappings[i].k) : i \in 1..Len(config.custom_mappings)}

\* whether the column map lists the pair p under a key
ListedUnder(key, p) ==
    /\ DictHas(column_map, key)
    /\ \E i \in 1..Len(column_map[key]) : column_map[key][i] = p

\* a column p whose bare name is also the table_column key of another column
SharesCompositeKey(p) ==
    \E q \in RealPairs :
        /\ q # p
        /\ Lower(q.column) \in common_cols
        /\ Lower(p.column) = q.table \o c_us \o Lower(q.column)

\* C28: after the column map is built, for every table T and column C the
\* candidate list stored under the bare lower-cased name of C contains
\* {T, C}, unless that key is a configured alias, whatever the order of the
\* tables and columns in the snapshot: a table.column or table_column key
\* never removes a distinct column stored under the same key.
C28_BareNameListsEveryColumn ==
    \A p \in RealPairs :
        Lower(p.column) \notin AliasKeys => ListedUnder(Lower(p.column), p)

\* parse returned for a query text that names a column whose bare name is
\* the table_column key of another column
C28_CompositeKeyCollision ==
    /\ ParsedOk
    /\ \E p \in RealPairs :
           /\ SharesCompositeKey(p)
           /\ Lower(p.column) \notin AliasKeys
           /\ Contains(Lower(p.column), Lower(call.query_text))

(***************************************************************************)
(* C29                                                                     *)
(***************************************************************************)
\* the SELECT list of a SQL text: its first line
SelectLine(sql) == Split(sql, q_nl)[1]

\* where the output aliases of the SELECT list open
AliasStarts(sql) ==
    {i + Len(q__AS_ \o q_dq) : i \in Occurrences(q__AS_ \o q_dq, SelectLine(sql))}

\* the output alias that opens at position i of the SELECT list
AliasAt(sql, i) ==
    Before(From(SelectLine(sql), i), Find(q_dq, From(SelectLine(sql), i)))

\* C29: within one build_sql call the output aliases (the names after AS) of
\* the SELECT list are pairwise distinct for every select list, including
\* lists that name the same column twice, mix a plain and an aggregated use
\* of one column, or take same-named columns from different tables.
C29_OutputAliasesDistinct ==
    BuiltOk =>
        /\ Cardinality(AliasStarts(result.sql)) = Len(parsed_query.select_columns)
        /\ \A i \in AliasStarts(result.sql) : \A j \in AliasStarts(result.sql) :
               i # j => AliasAt(result.sql, i) # AliasAt(result.sql, j)

\* SQL was built for a select list that names the same column twice
C29_SameColumnTwiceBuilt ==
    /\ BuiltOk
    /\ \E i \in 1..Len(parsed_query.select_columns) :
           \E j \in 1..Len(parsed_query.select_columns) :
               /\ i # j
               /\ parsed_query.select_columns[i] = parsed_query.select_columns[j]

(***************************************************************************)
(* C30                                                                     *)
(***************************************************************************)
\* the fuzzy cache holds no more entries than its cap
CacheWithinCap == Cardinality(DOMAIN fuzzy_cache) <= FuzzyCacheMax

\* every entry of the fuzzy cache is what the scan of the schema returns for
\* its token
CacheEntriesAreScans ==
    \A term \in DOMAIN fuzzy_cache : fuzzy_cache[term] = FuzzyScan(Self, term)

\* C30: under any interleaving of concurrent column-resolution calls
\* (find_column, find_column_for_base, find_all_columns) from several threads
\* on one QueryParser instance, the fuzzy-match cache never holds more than
\* its cap of entries (1000 in the source) and every entry stored for a token
\* equals the result an uncached scan of the schema returns for that token.
C30_CacheBoundedAndExactUnderThreads ==
    CacheWithinCap /\ CacheEntriesAreScans

\* two threads are inside _fuzzy_search at once, past the size check, about
\* to store different tokens
C30_TwoThreadsStoring ==
    \E t \in Threads : \E u \in Threads :
        /\ t # u
        /\ threads[t].at = "storing"
        /\ threads[u].at = "storing"
        /\ threads[t].search_term # threads[u].search_term

====
